---- MODULE Spec2Model ----
(***************************************************************************)
(* VISTA3D service (src/vista_service.py): the poll loop that claims task  *)
(* descriptor files and hands them to a thread pool, the worker that       *)
(* validates, runs and archives one descriptor, and the point/full         *)
(* segmentation task that merges results into the persisted volume         *)
(* (ct_seg.nii.gz) and the ROI registry (ct_seg.json).                     *)
(*                                                                         *)
(* Python values are rendered as follows.  None and an absent list are the *)
(* empty sequence <<>>; a dict is a record plus the set of its keys        *)
(* ("fields"); a float in [0,1] is an integer number of tenths; a physical *)
(* coordinate is an integer number of 1e-4 units.                          *)
(***************************************************************************)
EXTENDS Integers, Sequences, FiniteSets, TLC

---------------------------------------------------------------------------
(* Bounds of the model *)

\* number of descriptor files that may appear in the watched directory
NumPaths == 2
\* max_concurrent_tasks: the worker threads of the pool
MaxWorkers == 2
\* I/O errors (failed move, failed write) the environment may inject in a run
MaxFaults == 1
\* voxels of the persisted volume's grid
NVox == 2
\* longest prompt list of a point descriptor in the directory specification
MaxPrompts == 2
\* tasks run one after another on one output directory
MaxTasks == 1
MaxRestarts == 1

---------------------------------------------------------------------------
(* Small helpers *)

Abs(n) == IF n < 0 THEN -n ELSE n

Range(s) == {s[i] : i \in 1..Len(s)}

\* the empty sequence stands for Python's None
None == <<>>

---------------------------------------------------------------------------
(* validate_task *)

RequiredFields == <<"task_id", "input_file", "output_directory">>

\* index (1-based) of the first required field the descriptor lacks, 0 if none
FirstMissingField(task_data) ==
    LET missing == {i \in 1..Len(RequiredFields) :
                        RequiredFields[i] \notin task_data.fields}
    IN  IF missing = {} THEN 0
        ELSE CHOOSE i \in missing : \A j \in missing : i <= j

\* torch, numpy and nibabel were imported
LibsAvailable == TRUE

\* prompt_spec.get("positive_points", []) and its negative counterpart:
\* an absent key reads as the empty list
PointsOf(prompt_spec, key) ==
    IF key \in prompt_spec.fields THEN prompt_spec[key] ELSE <<>>

PointsIsList(prompt_spec, key) ==
    IF key \in prompt_spec.fields THEN prompt_spec[key \o "_is_list"] ELSE TRUE

\* the checks of one point coordinate list: "" when every point passes, else
\* the message of the first failing point
PointListMessage(points, p_type_name, i) ==
    LET bad == {k \in 1..Len(points) : points[k] # "ok"}
    IN  IF bad = {} THEN ""
        ELSE LET k == CHOOSE k \in bad : \A j \in bad : k <= j
             IN  IF points[k] = "short"
                 THEN "Each point in '" \o p_type_name
                      \o "' must be a list of 3 numbers (x,y,z) in prompt spec at index "
                      \o ToString(i)
                 ELSE "Point coordinates must be numbers in '" \o p_type_name
                      \o "' in prompt spec at index " \o ToString(i)

\* the prompt checks without the test of line 140 for an empty point set
PromptMessageNoEmptyCheck(prompt_spec, i) ==
    IF ~prompt_spec.is_dict
    THEN "Prompt spec at index " \o ToString(i) \o " must be a dictionary"
    ELSE IF "target_output_label" \notin prompt_spec.fields \/ ~prompt_spec.label_is_int
    THEN "Missing or invalid 'target_output_label' (must be int) in prompt spec at index "
         \o ToString(i)
    ELSE IF ~PointsIsList(prompt_spec, "positive_points")
            \/ ~PointsIsList(prompt_spec, "negative_points")
    THEN "positive_points/negative_points must be lists in prompt spec at index "
         \o ToString(i)
    ELSE IF PointListMessage(PointsOf(prompt_spec, "positive_points"),
                             "positive_points", i) # ""
    THEN PointListMessage(PointsOf(prompt_spec, "positive_points"), "positive_points", i)
    ELSE PointListMessage(PointsOf(prompt_spec, "negative_points"), "negative_points", i)

\* the checks of the prompt at 0-based index i: "" when it passes
PromptMessage(prompt_spec, i) ==
    IF ~prompt_spec.is_dict
    THEN "Prompt spec at index " \o ToString(i) \o " must be a dictionary"
    ELSE IF "target_output_label" \notin prompt_spec.fields \/ ~prompt_spec.label_is_int
    THEN "Missing or invalid 'target_output_label' (must be int) in prompt spec at index "
         \o ToString(i)
    ELSE IF ~PointsIsList(prompt_spec, "positive_points")
            \/ ~PointsIsList(prompt_spec, "negative_points")
    THEN "positive_points/negative_points must be lists in prompt spec at index "
         \o ToString(i)
    ELSE IF PointsOf(prompt_spec, "positive_points") = <<>>
            /\ PointsOf(prompt_spec, "negative_points") = <<>>
    THEN "At least one positive or negative point must be provided for prompt spec at index "
         \o ToString(i)
    ELSE IF PointListMessage(PointsOf(prompt_spec, "positive_points"),
                             "positive_points", i) # ""
    THEN PointListMessage(PointsOf(prompt_spec, "positive_points"), "positive_points", i)
    ELSE PointListMessage(PointsOf(prompt_spec, "negative_points"), "negative_points", i)

\* the message of the first failing prompt of the list, "" when all pass
PromptsMessage(prompts) ==
    LET bad == {k \in 1..Len(prompts) : PromptMessage(prompts[k], k - 1) # ""}
    IN  IF bad = {} THEN ""
        ELSE LET k == CHOOSE k \in bad : \A j \in bad : k <= j
             IN  PromptMessage(prompts[k], k - 1)

\* task_data after line 115: segmentation_type filled in when absent
WithDefaultType(task_data) ==
    IF "segmentation_type" \in task_data.fields THEN task_data
    ELSE [task_data EXCEPT !.fields = @ \cup {"segmentation_type"},
                           !.segmentation_type = "point"]

\* validate_task: the verdict, its message, and task_data as the call leaves it
ValidateTask(task_data) ==
    LET filled == WithDefaultType(task_data)
        Fail(msg, td) == [valid |-> FALSE, message |-> msg, task_data |-> td]
    IN  IF FirstMissingField(task_data) # 0
        THEN Fail("Missing required field: "
                  \o RequiredFields[FirstMissingField(task_data)], task_data)
        ELSE IF ~task_data.input_exists
        THEN Fail("Input file does not exist", task_data)
        ELSE IF filled.segmentation_type \notin {"full", "point"}
        THEN Fail("Invalid segmentation type: " \o filled.segmentation_type, filled)
        ELSE IF filled.segmentation_type = "full"
        THEN [valid |-> TRUE, message |-> "Task is valid", task_data |-> filled]
        ELSE IF ~LibsAvailable
        THEN Fail("PyTorch, NumPy, or Nibabel is not installed. 'point' segmentation is unavailable.",
                  filled)
        ELSE IF "segmentation_prompts" \notin filled.fields
        THEN Fail("Missing 'segmentation_prompts' for point segmentation", filled)
        ELSE IF ~filled.prompts_is_list \/ filled.segmentation_prompts = <<>>
        THEN Fail("'segmentation_prompts' must be a non-empty list", filled)
        ELSE IF PromptsMessage(filled.segmentation_prompts) # ""
        THEN Fail(PromptsMessage(filled.segmentation_prompts), filled)
        ELSE [valid |-> TRUE, message |-> "Task is valid", task_data |-> filled]

---------------------------------------------------------------------------
(* Change detection: _get_roi_center_physical and _centers_are_close *)

\* _get_roi_center_physical: the prompt's physical_center_of_box when it is a
\* list of 3 numbers, else None
GetRoiCenterPhysical(prompt_spec) ==
    IF /\ "physical_center_of_box" \in prompt_spec.fields
       /\ prompt_spec.center_is_list
       /\ Len(prompt_spec.physical_center_of_box) = 3
       /\ prompt_spec.center_numeric
    THEN prompt_spec.physical_center_of_box
    ELSE None

\* tolerance=1e-3, in units of 1e-4
AtolUnits == 10
\* numpy.allclose's default rtol is 1e-5: the inverse of it
RtolInverse == 100000

\* _centers_are_close: np.allclose(center1, center2, atol=tolerance), that is
\* |c1 - c2| <= atol + rtol * |c2| on every axis; over the integers this is
\* |c1 - c2| - atol <= |c2| \div (1 / rtol)
CentersAreClose(center1, center2) ==
    /\ Len(center1) = 3
    /\ Len(center2) = 3
    /\ \A i \in 1..3 :
          Abs(center1[i] - center2[i]) - AtolUnits
              <= Abs(center2[i]) \div RtolInverse

---------------------------------------------------------------------------
(* run_vista3d_task, point branch *)

\* a read of ct_seg.json that finds no entry
ExistingRoisMapEmpty(registry) == <<>>

\* existing_rois_map: ROIIndex -> entry; a later entry of the file with the
\* same ROIIndex replaces an earlier one
ExistingRoisMap(registry) ==
    LET rois == IF registry.exists THEN registry.rois ELSE <<>>
        Last(l) == CHOOSE i \in 1..Len(rois) :
                      /\ rois[i].ROIIndex = l
                      /\ \A j \in 1..Len(rois) : rois[j].ROIIndex = l => j <= i
    IN  [l \in {rois[i].ROIIndex : i \in 1..Len(rois)} |-> rois[Last(l)]]

\* a change detection that schedules every prompt
NeedsProcessingAlways(prompt_spec, existing_rois_map) == TRUE

\* lines 263-275: whether the prompt goes into prompts_to_process
NeedsProcessing(prompt_spec, existing_rois_map) ==
    LET target_label == prompt_spec.target_output_label
        center == GetRoiCenterPhysical(prompt_spec)
        existing_center ==
            IF target_label \in DOMAIN existing_rois_map
            THEN existing_rois_map[target_label].ROICenter
            ELSE None
    IN  \/ center = None
        \/ ~CentersAreClose(center, existing_center)

\* prompts_to_process, in the order of the descriptor's prompt list
PromptsToProcess(prompts, existing_rois_map) ==
    LET Test(p) == NeedsProcessing(p, existing_rois_map)
    IN  SelectSeq(prompts, Test)

\* display_name = prompt_spec.get("display_name", f"Label {target_label}")
DisplayName(prompt_spec) ==
    IF "display_name" \in prompt_spec.fields
    THEN prompt_spec.display_name
    ELSE "Label " \o ToString(prompt_spec.target_output_label)

\* current_points = positive_points + negative_points
CurrentPoints(prompt_spec) ==
    PointsOf(prompt_spec, "positive_points") \o PointsOf(prompt_spec, "negative_points")

\* 1-based position in prompts_to_process of the first engine call that
\* raises, 0 when none does.  outs[j] is what infer does for the j-th prompt
RaiseAt(to_process, outs) ==
    LET raising == {j \in 1..Len(to_process) :
                        CurrentPoints(to_process[j]) # <<>> /\ outs[j].kind = "raise"}
    IN  IF raising = {} THEN 0
        ELSE CHOOSE j \in raising : \A k \in raising : j <= k

\* positions of prompts_to_process for which infer is called (lines 282-305)
CalledAt(to_process, outs) ==
    {j \in 1..Len(to_process) :
        /\ CurrentPoints(to_process[j]) # <<>>
        /\ RaiseAt(to_process, outs) \in {0} \cup j..Len(to_process)}

\* segmentation_results_new built from the first n prompts of prompts_to_process
RECURSIVE ResultsNew(_, _, _)
ResultsNew(to_process, outs, n) ==
    IF n = 0 THEN <<>>
    ELSE LET rest == ResultsNew(to_process, outs, n - 1)
         IN  IF n \in CalledAt(to_process, outs) /\ outs[n].kind = "result"
             THEN Append(rest, [label_id |-> to_process[n].target_output_label,
                                mask_tensor |-> outs[n].field,
                                affine |-> outs[n].affine,
                                display_name |-> DisplayName(to_process[n])])
             ELSE rest

\* binarization threshold 0.5, in tenths
Threshold == 5

\* binary_class_mask = (squeezed_mask > 0.5).long()
Binarize(x) == IF x > Threshold THEN 1 ELSE 0

\* a merge that applies a result of another grid on the voxels it shares with
\* the combined mask
MergeOneAnyShape(combined, seg_res) ==
    [v \in 1..Len(combined) |->
        IF v <= Len(seg_res.mask_tensor) /\ Binarize(seg_res.mask_tensor[v]) = 1
        THEN seg_res.label_id
        ELSE IF combined[v] = seg_res.label_id THEN 0
        ELSE combined[v]]

\* a merge that starts from an empty mask for every result
MergeOneFresh(combined, seg_res) ==
    IF Len(seg_res.mask_tensor) # Len(combined)
    THEN combined
    ELSE [v \in 1..Len(combined) |->
            IF Binarize(seg_res.mask_tensor[v]) = 1 THEN seg_res.label_id ELSE 0]

\* lines 352-364: one result merged into the combined mask
MergeOne(combined, seg_res) ==
    IF Len(seg_res.mask_tensor) # Len(combined)
    THEN combined
    ELSE [v \in 1..Len(combined) |->
            IF Binarize(seg_res.mask_tensor[v]) = 1 THEN seg_res.label_id
            ELSE IF combined[v] = seg_res.label_id THEN 0
            ELSE combined[v]]

\* the results merged in the reverse of list order
RECURSIVE MergeAllReversed(_, _)
MergeAllReversed(combined, results) ==
    IF results = <<>> THEN combined
    ELSE MergeOne(MergeAllReversed(combined, Tail(results)), Head(results))

\* lines 351-364: the results merged in list order
RECURSIVE MergeAll(_, _)
MergeAll(combined, results) ==
    IF results = <<>> THEN combined
    ELSE MergeAll(MergeOne(combined, Head(results)), Tail(results))

\* lines 324-375: the volume file after the mask combination
PointVolume(volume, results_new) ==
    IF volume.exists
    THEN [exists |-> TRUE,
          data   |-> MergeAll(volume.data, results_new),
          affine |-> volume.affine]
    ELSE IF results_new # <<>>
    THEN [exists |-> TRUE,
          data   |-> MergeAll([v \in 1..Len(results_new[1].mask_tensor) |-> 0],
                              results_new),
          affine |-> results_new[1].affine]
    ELSE volume

\* whether lines 366-368 write the volume file
PointVolumeSaved(volume, results_new) ==
    volume.exists \/ results_new # <<>>

---------------------------------------------------------------------------
(* run_vista3d_task: the ROI registry (ct_seg.json) *)

\* roi_colors, each channel in tenths
RoiColors ==
    << <<10, 0, 0>>, <<0, 10, 0>>, <<0, 0, 10>>, <<5, 5, 10>>,
       <<0, 5, 10>>, <<10, 5, 10>>, <<10, 5, 0>>, <<2, 5, 2>>,
       <<2, 8, 4>>, <<10, 0, 5>>, <<5, 0, 0>>, <<0, 5, 0>>,
       <<10, 0, 5>>, <<0, 5, 5>>, <<5, 0, 10>>, <<10, 2, 2>>,
       <<7, 7, 0>>, <<2, 2, 7>>, <<0, 7, 7>>, <<7, 0, 7>>,
       <<7, 5, 2>>, <<4, 7, 2>>, <<8, 2, 8>>, <<8, 8, 2>>,
       <<2, 8, 8>>, <<8, 2, 2>>, <<5, 2, 7>>, <<7, 5, 7>>,
       <<5, 7, 2>>, <<2, 7, 5>>, <<7, 2, 5>> >>

\* lines 379-389: one entry per prompt of the descriptor, in list order; the
\* colour is assigned afterwards
RoisForCurrentTask(prompts) ==
    [i \in 1..Len(prompts) |->
        [ROIIndex  |-> prompts[i].target_output_label,
         ROIName   |-> DisplayName(prompts[i]),
         ROICenter |-> GetRoiCenterPhysical(prompts[i]),
         visible   |-> TRUE,
         ROIColor  |-> None]]

\* the entries of a set, one per ROIIndex, as a sequence in ROIIndex order
RECURSIVE EntriesByIndex(_, _)
EntriesByIndex(map, labels) ==
    IF labels = {} THEN <<>>
    ELSE LET l == CHOOSE x \in labels : \A y \in labels : x <= y
         IN  <<map[l]>> \o EntriesByIndex(map, labels \ {l})

\* a rebuild that keeps no existing entry
PreservedRoisDropped(current, existing_rois_map) == <<>>

\* lines 410-414: the existing entries whose label the descriptor does not name
PreservedRois(current, existing_rois_map) ==
    LET current_task_labels_set == {current[i].ROIIndex : i \in 1..Len(current)}
    IN  EntriesByIndex(existing_rois_map,
                       DOMAIN existing_rois_map \ current_task_labels_set)

\* list.sort(key=ROIIndex): a stable sort
RECURSIVE SortByRoiIndex(_)
SortByRoiIndex(rois) ==
    IF rois = <<>> THEN <<>>
    ELSE LET m == CHOOSE i \in 1..Len(rois) :
                    /\ \A j \in 1..Len(rois) : rois[i].ROIIndex <= rois[j].ROIIndex
                    /\ \A j \in 1..(i - 1) : rois[j].ROIIndex # rois[i].ROIIndex
         IN  <<rois[m]>> \o
             SortByRoiIndex(SubSeq(rois, 1, m - 1) \o SubSeq(rois, m + 1, Len(rois)))

\* lines 418-426: each entry's colour from the first position of its ROIIndex
\* in the sorted list
AssignColors(sorted) ==
    [i \in 1..Len(sorted) |->
        LET color_idx == (CHOOSE k \in 1..Len(sorted) :
                            /\ sorted[k].ROIIndex = sorted[i].ROIIndex
                            /\ \A j \in 1..(k - 1) :
                                  sorted[j].ROIIndex # sorted[i].ROIIndex) - 1
        IN  [sorted[i] EXCEPT !.ROIColor = RoiColors[(color_idx % Len(RoiColors)) + 1]]]

\* a rebuild that keeps the other labels' entries whatever the number of
\* prompts
FinalRoisAlwaysMerged(prompts, existing_rois_map) ==
    LET current == RoisForCurrentTask(prompts)
    IN  AssignColors(SortByRoiIndex(
            current \o PreservedRois(current, existing_rois_map)))

\* lines 402-426: final_json_content_rois
FinalRois(prompts, existing_rois_map) ==
    LET current == RoisForCurrentTask(prompts)
        num_prompts_in_task == Len(prompts)
    IN  AssignColors(SortByRoiIndex(
            IF num_prompts_in_task = 1
            THEN current
            ELSE current \o PreservedRois(current, existing_rois_map)))

\* run_vista3d_task for a point descriptor.  registry and volume are the
\* files of the output directory, outs what infer does for each prompt of
\* prompts_to_process.  An exception raised by infer is caught at line 458
\* before anything is written.
RunPointTask(task_data, registry, volume, outs) ==
    LET prompts == task_data.segmentation_prompts
        existing_rois_map == ExistingRoisMap(registry)
        to_process == PromptsToProcess(prompts, existing_rois_map)
        results_new == ResultsNew(to_process, outs, Len(to_process))
        calls == Cardinality(CalledAt(to_process, outs))
    IN  IF RaiseAt(to_process, outs) # 0
        THEN [success |-> FALSE, registry |-> registry, volume |-> volume,
              calls |-> calls, results_new |-> <<>>, volume_saved |-> FALSE]
        ELSE [success |-> TRUE,
              registry |-> [exists |-> TRUE,
                            rois |-> FinalRois(prompts, existing_rois_map)],
              volume |-> PointVolume(volume, results_new),
              calls |-> calls,
              results_new |-> results_new,
              volume_saved |-> PointVolumeSaved(volume, results_new)]

\* run_vista3d_task for a full descriptor (lines 435-456): one infer call whose
\* result replaces the volume file; the registry is not touched
RunFullTask(registry, volume, out) ==
    IF out.kind = "result"
    THEN [success |-> TRUE, registry |-> registry,
          volume |-> [exists |-> TRUE, data |-> out.field, affine |-> out.affine],
          calls |-> 1, results_new |-> <<>>, volume_saved |-> TRUE]
    ELSE [success |-> FALSE, registry |-> registry, volume |-> volume,
          calls |-> 1, results_new |-> <<>>, volume_saved |-> FALSE]

\* run_vista3d_task (lines 229-461)
RunVista3dTask(task_data, registry, volume, outs) ==
    IF task_data.segmentation_type = "point"
    THEN RunPointTask(task_data, registry, volume, outs)
    ELSE RunFullTask(registry, volume, outs[1])

---------------------------------------------------------------------------
(* Values the specifications draw their inputs from *)

Paths == 1..NumPaths
Workers == 1..MaxWorkers

\* a prompt spec with the given label, point lists, centre and keys
Prompt(label, pos, neg, center, keys) ==
    [is_dict |-> TRUE, fields |-> keys,
     label_is_int |-> TRUE, target_output_label |-> label,
     positive_points_is_list |-> TRUE, positive_points |-> pos,
     negative_points_is_list |-> TRUE, negative_points |-> neg,
     display_name |-> "organ",
     center_is_list |-> TRUE, center_numeric |-> TRUE,
     physical_center_of_box |-> center]

AllPromptKeys ==
    {"target_output_label", "positive_points", "negative_points",
     "display_name", "physical_center_of_box"}

\* a descriptor (the parsed JSON object) with every key present
Descriptor(type, prompts) ==
    [fields |-> {"task_id", "input_file", "output_directory",
                 "segmentation_type", "segmentation_prompts"},
     input_exists |-> TRUE, segmentation_type |-> type,
     prompts_is_list |-> TRUE, segmentation_prompts |-> prompts]

CenterA == <<100, 200, 300>>

\* the .tsk files an external producer may drop into the watched directory
GarbageFile == [parsable |-> FALSE, task_data |-> Descriptor("full", <<>>)]
FullFile == [parsable |-> TRUE, task_data |-> Descriptor("full", <<>>)]
MissingInputFile ==
    [parsable |-> TRUE,
     task_data |-> [Descriptor("full", <<>>) EXCEPT !.input_exists = FALSE]]
PointFile ==
    [parsable |-> TRUE,
     task_data |-> Descriptor("point",
        <<Prompt(1, <<"ok">>, <<>>, CenterA, AllPromptKeys)>>)]
EmptyPromptFile ==
    [parsable |-> TRUE,
     task_data |-> [Descriptor("point",
        <<Prompt(1, <<"ok">>, <<>>, CenterA, AllPromptKeys),
          Prompt(2, <<>>, <<>>, CenterA, AllPromptKeys \ {"negative_points"})>>)
        EXCEPT !.fields = @ \ {"segmentation_type"}, !.segmentation_type = ""]]

TaskFiles ==
    {GarbageFile, FullFile, MissingInputFile, PointFile, EmptyPromptFile}

\* whether the file holds a point descriptor (segmentation_type "point" or
\* absent) one of whose prompt specs has no point at all
HasEmptyPrompt(file) ==
    /\ file.parsable
    /\ WithDefaultType(file.task_data).segmentation_type = "point"
    /\ file.task_data.prompts_is_list
    /\ \E i \in 1..Len(file.task_data.segmentation_prompts) :
          LET ps == file.task_data.segmentation_prompts[i]
          IN  ps.is_dict /\ PointsOf(ps, "positive_points") = <<>>
                         /\ PointsOf(ps, "negative_points") = <<>>

\* the probability fields infer may return over a grid of n voxels, in tenths:
\* 5 is exactly the threshold, 9 is above it
Fields(n) == [1..n -> {5, 9}]

\* what one infer call does: it raises, returns None, or returns a field with
\* its affine
EngineOuts(shapes, affines) ==
    {[kind |-> "raise", field |-> <<>>, affine |-> 0],
     [kind |-> "none", field |-> <<>>, affine |-> 0]}
    \cup {[kind |-> "result", field |-> f, affine |-> a] :
            f \in UNION {Fields(n) : n \in shapes}, a \in affines}

\* what infer may do for a prompt of a descriptor of the watched directory
ServiceOuts ==
    {[kind |-> "raise", field |-> <<>>, affine |-> 0],
     [kind |-> "none", field |-> <<>>, affine |-> 0],
     [kind |-> "result", field |-> [v \in 1..NVox |-> 9], affine |-> 1]}

\* the label maps a full inference may return
FullOuts ==
    {[kind |-> "raise", field |-> <<>>, affine |-> 0],
     [kind |-> "none", field |-> <<>>, affine |-> 0],
     [kind |-> "result", field |-> [v \in 1..NVox |-> 7], affine |-> 1]}

NoRegistry == [exists |-> FALSE, rois |-> <<>>]
NoVolume == [exists |-> FALSE, data |-> <<>>, affine |-> 0]

---------------------------------------------------------------------------
(* State *)

VARIABLES
    files,        \* what each path's .tsk file holds, once it was created
    created,      \* the paths an external producer has created so far
    tasksDir,     \* the .tsk files now in the watched directory
    history,      \* per path, the name prefixes of its files in TasksHistory
    results,      \* per path, every record written to its _result.json, in order
    registry,     \* ct_seg.json of the output directory
    volume,       \* ct_seg.nii.gz of the output directory
    active,       \* active_task_paths
    pollPc,       \* where the poll loop of monitor_tasks_folder stands
    discovered,   \* the part of sorted(discovered_task_files) still to examine
    queue,        \* the executor's work queue
    wpc,          \* per worker thread, where process_task_file stands
    wpath,        \* per worker thread, task_file_path_submitted (0 when idle)
    wtask,        \* per worker thread, task_data
    wsuccess,     \* per worker thread, success as run_vista3d_task returned it
    submits,      \* per path, how many times executor.submit accepted it
    engineCalls,  \* per path, how many infer calls its workers made
    engineOk,     \* the paths whose worker ran a task in which infer returned a result
    engineFailed, \* the paths whose worker ran a task in which an infer call raised or returned None
    processed,    \* the paths for which a worker ran process_task_file to its end
    moveFailed,   \* the paths for which shutil.move of the present file raised
    faults,       \* I/O errors injected so far
    lastTask,     \* directory specification: the descriptor of the last task run
    lastRun,      \* directory specification: what that run returned
    nTasks,       \* directory specification: tasks run so far
    inflight,     \* per thread, a run of run_vista3d_task taken line by line
    submitFailed, \* the paths for which executor.submit raised
    starts,       \* how many times monitor_tasks_folder was started
    cycle,        \* directory listings since the last restart (0 before one, at most 2)
    leftover,     \* descriptors found in the watched directory at the last
                  \* restart and not submitted since
    sleepLeft     \* what is left of the time.sleep call of the except clause
                  \* of line 604, in units of interval

vars ==
    <<files, created, tasksDir, history, results, registry, volume, active,
      pollPc, discovered, queue, wpc, wpath, wtask, wsuccess, submits,
      engineCalls, engineOk, engineFailed, processed, moveFailed, faults,
      lastTask, lastRun, nTasks, inflight, submitFailed, starts, cycle, leftover,
      sleepLeft>>

dirVars == <<lastTask, lastRun, nTasks>>

lifeVars == <<submitFailed, starts, cycle, leftover, sleepLeft>>

serviceVars ==
    <<files, created, tasksDir, history, results, active, pollPc, discovered,
      queue, wpc, wpath, wtask, wsuccess, submits, engineCalls, engineOk, engineFailed,
      processed, moveFailed, faults>>

\* no task has run on the output directory yet
NoRun ==
    [seq |-> 0, kind |-> "none", success |-> FALSE, calls |-> 0,
     results_new |-> <<>>, volume_saved |-> FALSE,
     resubmission |-> FALSE, prior_success |-> FALSE]

\* a thread that has not entered run_vista3d_task
NoCall ==
    [pc |-> "none", task_data |-> GarbageFile.task_data,
     existing_rois_map |-> ExistingRoisMap(NoRegistry), results_new |-> <<>>,
     mask |-> NoVolume, success |-> FALSE, overlapped |-> FALSE]

\* monitor_tasks_folder starts: empty active set (line 562), idle pool, an
\* empty watched directory and an output directory without files
Init ==
    /\ files = [p \in Paths |-> GarbageFile]
    /\ created = {}
    /\ tasksDir = {}
    /\ history = [p \in Paths |-> <<>>]
    /\ results = [p \in Paths |-> <<>>]
    /\ registry = NoRegistry
    /\ volume = NoVolume
    /\ active = {}
    /\ pollPc = "scan"
    /\ discovered = <<>>
    /\ queue = <<>>
    /\ wpc = [w \in Workers |-> "idle"]
    /\ wpath = [w \in Workers |-> 0]
    /\ wtask = [w \in Workers |-> GarbageFile.task_data]
    /\ wsuccess = [w \in Workers |-> FALSE]
    /\ submits = [p \in Paths |-> 0]
    /\ engineCalls = [p \in Paths |-> 0]
    /\ engineOk = {}
    /\ engineFailed = {}
    /\ processed = {}
    /\ moveFailed = {}
    /\ faults = 0
    /\ lastTask = GarbageFile.task_data
    /\ lastRun = NoRun
    /\ nTasks = 0
    /\ inflight = [w \in Workers |-> NoCall]
    /\ submitFailed = {}
    /\ starts = 1
    /\ cycle = 0
    /\ leftover = {}
    /\ sleepLeft = 0

---------------------------------------------------------------------------
(* The environment: a producer drops a descriptor file *)

CreateFile(p, f) ==
    /\ p \notin created
    /\ created' = created \cup {p}
    /\ tasksDir' = tasksDir \cup {p}
    /\ files' = [files EXCEPT ![p] = f]
    /\ UNCHANGED <<history, results, registry, volume, active, pollPc,
                   discovered, queue, wpc, wpath, wtask, wsuccess, submits,
                   engineCalls, engineOk, engineFailed, processed, moveFailed, faults, dirVars,
                   inflight, lifeVars>>

---------------------------------------------------------------------------
(* monitor_tasks_folder: the poll loop *)

\* the paths of a set as a sequence in sorted order
RECURSIVE Sorted(_)
Sorted(S) ==
    IF S = {} THEN <<>>
    ELSE LET m == CHOOSE x \in S : \A y \in S : x <= y
         IN  <<m>> \o Sorted(S \ {m})

\* the for loop moves on to the next discovered path, or the cycle ends
\* (time.sleep, then the next listing)
PollAdvance ==
    /\ discovered' = Tail(discovered)
    /\ pollPc' = IF Tail(discovered) = <<>> THEN "scan" ELSE "exists"

pollFrame ==
    <<files, created, tasksDir, history, results, registry, volume, wpc, wpath,
      wtask, wsuccess, engineCalls, engineOk, engineFailed, processed, moveFailed,
      dirVars, inflight>>

\* lines 569-577: os.listdir, the snapshot of the cycle
Scan ==
    /\ pollPc = "scan"
    /\ discovered' = Sorted(tasksDir)
    /\ pollPc' = IF tasksDir = {} THEN "scan" ELSE "exists"
    /\ cycle' = IF starts > 1 /\ cycle < 2 THEN cycle + 1 ELSE cycle
    /\ UNCHANGED <<active, queue, submits, faults, submitFailed, starts, leftover,
                   sleepLeft>>
    /\ UNCHANGED pollFrame

\* lines 578-579: os.path.exists(task_path)
ExistsCheck ==
    /\ pollPc = "exists"
    /\ IF Head(discovered) \in tasksDir
       THEN pollPc' = "claim" /\ UNCHANGED discovered
       ELSE PollAdvance
    /\ UNCHANGED <<active, queue, submits, faults, lifeVars>>
    /\ UNCHANGED pollFrame

\* the claim without the membership test of line 582
MayClaimUnchecked(task_path) == TRUE

\* whether the locked check of line 582 lets the path be claimed
MayClaim(task_path) == task_path \notin active

\* lines 581-586: check and insert under active_task_paths_lock
Claim ==
    /\ pollPc = "claim"
    /\ IF MayClaim(Head(discovered))
       THEN /\ active' = active \cup {Head(discovered)}
            /\ pollPc' = "submit"
            /\ UNCHANGED discovered
       ELSE /\ PollAdvance
            /\ UNCHANGED active
    /\ UNCHANGED <<queue, submits, faults, lifeVars>>
    /\ UNCHANGED pollFrame

\* line 590: executor.submit accepts the work item
Submit ==
    /\ pollPc = "submit"
    /\ queue' = Append(queue, Head(discovered))
    /\ submits' = [submits EXCEPT ![Head(discovered)] = @ + 1]
    /\ leftover' = leftover \ {Head(discovered)}
    /\ PollAdvance
    /\ UNCHANGED <<active, faults, submitFailed, starts, cycle, sleepLeft>>
    /\ UNCHANGED pollFrame

\* an except clause that only logs the failed submission
KeptOnSubmitFailure(task_path) == active

\* lines 593-596: the active set once the except clause has run
ReleasedOnSubmitFailure(task_path) == active \ {task_path}

\* lines 591-596: executor.submit raises; the claim is released
SubmitFails ==
    /\ pollPc = "submit"
    /\ faults < MaxFaults
    /\ faults' = faults + 1
    /\ active' = ReleasedOnSubmitFailure(Head(discovered))
    /\ submitFailed' = submitFailed \cup {Head(discovered)}
    /\ PollAdvance
    /\ UNCHANGED <<queue, submits, starts, cycle, leftover, sleepLeft>>
    /\ UNCHANGED pollFrame

---------------------------------------------------------------------------
(* process_task_file: one worker thread of the pool *)

workerFrame ==
    <<files, created, pollPc, discovered, submits, dirVars, inflight, lifeVars>>

\* the worker moves to another line of process_task_file
Goto(w, pc) == wpc' = [wpc EXCEPT ![w] = pc]

\* a pool thread takes the next work item
Take(w) ==
    /\ wpc[w] = "idle"
    /\ queue # <<>>
    /\ wpath' = [wpath EXCEPT ![w] = Head(queue)]
    /\ queue' = Tail(queue)
    /\ Goto(w, "open")
    /\ UNCHANGED <<tasksDir, history, results, registry, volume, active, wtask,
                   wsuccess, engineCalls, engineOk, engineFailed, processed, moveFailed, faults>>
    /\ UNCHANGED workerFrame

\* lines 467-474 and 487: open, json.load, validate_task.  A missing file or
\* an unparsable one raises into the except clause of line 526
OpenAndValidate(w) ==
    /\ wpc[w] = "open"
    /\ IF wpath[w] \notin tasksDir \/ ~files[wpath[w]].parsable
       THEN Goto(w, "except") /\ UNCHANGED wtask
       ELSE LET v == ValidateTask(files[wpath[w]].task_data)
            IN  /\ wtask' = [wtask EXCEPT ![w] = v.task_data]
                /\ Goto(w, IF v.valid THEN "run" ELSE "vmove")
    /\ UNCHANGED <<tasksDir, history, results, registry, volume, active, queue,
                   wpath, wsuccess, engineCalls, engineOk, engineFailed, processed,
                   moveFailed, faults>>
    /\ UNCHANGED workerFrame

\* a copy into TasksHistory that leaves the descriptor where it was
ArchiveByCopy(task_file, prefix) ==
    /\ UNCHANGED tasksDir
    /\ history' = [history EXCEPT ![task_file] = Append(@, prefix)]

\* shutil.move(task_file, <prefix><basename>) of a file that is there
Archive(task_file, prefix) ==
    /\ tasksDir' = tasksDir \ {task_file}
    /\ history' = [history EXCEPT ![task_file] = Append(@, prefix)]

\* json.dump of result_data into <stem>_result.json: the file now holds it
WriteRecord(task_file, result_data) ==
    results' = [results EXCEPT ![task_file] = Append(@, result_data)]

\* the environment lets one more I/O call raise
InjectFault ==
    /\ faults < MaxFaults
    /\ faults' = faults + 1

\* lines 476-477: the move of a descriptor that failed validation
ValidationMove(w) ==
    /\ wpc[w] = "vmove"
    /\ IF wpath[w] \in tasksDir
       THEN Archive(wpath[w], "failed_validation_") /\ Goto(w, "vwrite")
       ELSE Goto(w, "except") /\ UNCHANGED <<tasksDir, history>>
    /\ UNCHANGED <<results, registry, volume, active, queue, wpath, wtask,
                   wsuccess, engineCalls, engineOk, engineFailed, processed, moveFailed, faults>>
    /\ UNCHANGED workerFrame

ValidationMoveFails(w) ==
    /\ wpc[w] = "vmove"
    /\ wpath[w] \in tasksDir
    /\ InjectFault
    /\ moveFailed' = moveFailed \cup {wpath[w]}
    /\ Goto(w, "except")
    /\ UNCHANGED <<tasksDir, history, results, registry, volume, active, queue,
                   wpath, wtask, wsuccess, engineCalls, engineOk, engineFailed, processed>>
    /\ UNCHANGED workerFrame

\* lines 478-485: the record of a validation failure
ValidationWrite(w) ==
    /\ wpc[w] = "vwrite"
    /\ WriteRecord(wpath[w], [success |-> FALSE, message |-> "Validation Failed",
                              output_mask |-> FALSE, output_labels |-> FALSE])
    /\ Goto(w, "finally")
    /\ UNCHANGED <<tasksDir, history, registry, volume, active, queue, wpath,
                   wtask, wsuccess, engineCalls, engineOk, engineFailed, processed,
                   moveFailed, faults>>
    /\ UNCHANGED workerFrame

ValidationWriteFails(w) ==
    /\ wpc[w] = "vwrite"
    /\ InjectFault
    /\ Goto(w, "except")
    /\ UNCHANGED <<tasksDir, history, results, registry, volume, active, queue,
                   wpath, wtask, wsuccess, engineCalls, engineOk, engineFailed, processed,
                   moveFailed>>
    /\ UNCHANGED workerFrame

\* what infer may do for each call of the task: one outcome per prompt of
\* prompts_to_process, or the single outcome of a full inference
TaskOuts(task_data, reg) ==
    IF task_data.segmentation_type = "point"
    THEN [1..Len(PromptsToProcess(task_data.segmentation_prompts,
                                  ExistingRoisMap(reg)))
            -> ServiceOuts]
    ELSE [1..1 -> FullOuts]

\* whether every infer call the task made returned a result
AllCallsReturned(task_data, reg, outs) ==
    IF task_data.segmentation_type = "point"
    THEN LET to_process == PromptsToProcess(task_data.segmentation_prompts,
                                            ExistingRoisMap(reg))
         IN  /\ CalledAt(to_process, outs) # {}
             /\ \A j \in CalledAt(to_process, outs) : outs[j].kind = "result"
    ELSE outs[1].kind = "result"

\* whether an infer call the task made raised or returned None
SomeCallFailed(task_data, reg, outs) ==
    IF task_data.segmentation_type = "point"
    THEN LET to_process == PromptsToProcess(task_data.segmentation_prompts,
                                            ExistingRoisMap(reg))
         IN  \E j \in CalledAt(to_process, outs) : outs[j].kind # "result"
    ELSE outs[1].kind # "result"

\* line 488: run_vista3d_task, which catches what infer raises
Run(w) ==
    /\ wpc[w] = "run"
    /\ \E outs \in TaskOuts(wtask[w], registry) :
          LET r == RunVista3dTask(wtask[w], registry, volume, outs)
          IN  /\ registry' = r.registry
              /\ volume' = r.volume
              /\ wsuccess' = [wsuccess EXCEPT ![w] = r.success]
              /\ engineCalls' = [engineCalls EXCEPT ![wpath[w]] = @ + r.calls]
              /\ engineOk' = IF AllCallsReturned(wtask[w], registry, outs)
                             THEN engineOk \cup {wpath[w]} ELSE engineOk
              /\ engineFailed' = IF SomeCallFailed(wtask[w], registry, outs)
                                 THEN engineFailed \cup {wpath[w]}
                                 ELSE engineFailed
    /\ Goto(w, "write")
    /\ UNCHANGED <<tasksDir, history, results, active, queue, wpath, wtask,
                   processed, moveFailed, faults>>
    /\ UNCHANGED workerFrame

\* lines 217-227: the import, os.makedirs or the InferClass constructor raise,
\* outside the try of run_vista3d_task
RunRaises(w) ==
    /\ wpc[w] = "run"
    /\ Goto(w, "except")
    /\ UNCHANGED <<tasksDir, history, results, registry, volume, active, queue,
                   wpath, wtask, wsuccess, engineCalls, engineOk, engineFailed, processed,
                   moveFailed, faults>>
    /\ UNCHANGED workerFrame

\* lines 501-514: the record of a task that ran
WriteResult(w) ==
    /\ wpc[w] = "write"
    /\ WriteRecord(wpath[w], [success |-> wsuccess[w], message |-> "run",
                              output_mask |-> volume.exists,
                              output_labels |-> registry.exists])
    /\ Goto(w, "move")
    /\ UNCHANGED <<tasksDir, history, registry, volume, active, queue, wpath,
                   wtask, wsuccess, engineCalls, engineOk, engineFailed, processed,
                   moveFailed, faults>>
    /\ UNCHANGED workerFrame

WriteResultFails(w) ==
    /\ wpc[w] = "write"
    /\ InjectFault
    /\ Goto(w, "except")
    /\ UNCHANGED <<tasksDir, history, results, registry, volume, active, queue,
                   wpath, wtask, wsuccess, engineCalls, engineOk, engineFailed, processed,
                   moveFailed>>
    /\ UNCHANGED workerFrame

\* lines 516-517: the move of a descriptor whose task ran
Move(w) ==
    /\ wpc[w] = "move"
    /\ IF wpath[w] \in tasksDir
       THEN Archive(wpath[w], "") /\ Goto(w, "finally")
       ELSE Goto(w, "except") /\ UNCHANGED <<tasksDir, history>>
    /\ UNCHANGED <<results, registry, volume, active, queue, wpath, wtask,
                   wsuccess, engineCalls, engineOk, engineFailed, processed, moveFailed, faults>>
    /\ UNCHANGED workerFrame

MoveFails(w) ==
    /\ wpc[w] = "move"
    /\ wpath[w] \in tasksDir
    /\ InjectFault
    /\ moveFailed' = moveFailed \cup {wpath[w]}
    /\ Goto(w, "except")
    /\ UNCHANGED <<tasksDir, history, results, registry, volume, active, queue,
                   wpath, wtask, wsuccess, engineCalls, engineOk, engineFailed, processed>>
    /\ UNCHANGED workerFrame

\* lines 526-534: the except clause moves the descriptor; a move that raises
\* (the file is gone) is logged and passed over
ExceptMove(w) ==
    /\ wpc[w] = "except"
    /\ IF wpath[w] \in tasksDir
       THEN Archive(wpath[w], "error_processing_")
       ELSE UNCHANGED <<tasksDir, history>>
    /\ Goto(w, "xwrite")
    /\ UNCHANGED <<results, registry, volume, active, queue, wpath, wtask,
                   wsuccess, engineCalls, engineOk, engineFailed, processed, moveFailed, faults>>
    /\ UNCHANGED workerFrame

ExceptMoveFails(w) ==
    /\ wpc[w] = "except"
    /\ wpath[w] \in tasksDir
    /\ InjectFault
    /\ moveFailed' = moveFailed \cup {wpath[w]}
    /\ Goto(w, "xwrite")
    /\ UNCHANGED <<tasksDir, history, results, registry, volume, active, queue,
                   wpath, wtask, wsuccess, engineCalls, engineOk, engineFailed, processed>>
    /\ UNCHANGED workerFrame

\* lines 536-547: the except clause writes a failure record
ExceptWrite(w) ==
    /\ wpc[w] = "xwrite"
    /\ WriteRecord(wpath[w], [success |-> FALSE, message |-> "Unhandled error",
                              output_mask |-> FALSE, output_labels |-> FALSE])
    /\ Goto(w, "finally")
    /\ UNCHANGED <<tasksDir, history, registry, volume, active, queue, wpath,
                   wtask, wsuccess, engineCalls, engineOk, engineFailed, processed,
                   moveFailed, faults>>
    /\ UNCHANGED workerFrame

ExceptWriteFails(w) ==
    /\ wpc[w] = "xwrite"
    /\ InjectFault
    /\ Goto(w, "finally")
    /\ UNCHANGED <<tasksDir, history, results, registry, volume, active, queue,
                   wpath, wtask, wsuccess, engineCalls, engineOk, engineFailed, processed,
                   moveFailed>>
    /\ UNCHANGED workerFrame

\* a finally clause that leaves the set as it is
NotReleased(task_file_path_submitted) == active

\* the active set once the worker's finally clause has run
Released(task_file_path_submitted) == active \ {task_file_path_submitted}

\* lines 548-552: the finally clause releases the claim under the lock, and
\* the pool thread is free again
Finally(w) ==
    /\ wpc[w] = "finally"
    /\ active' = Released(wpath[w])
    /\ processed' = processed \cup {wpath[w]}
    /\ wpath' = [wpath EXCEPT ![w] = 0]
    /\ Goto(w, "idle")
    /\ UNCHANGED <<tasksDir, history, results, registry, volume, queue, wtask,
                   wsuccess, engineCalls, engineOk, engineFailed, moveFailed, faults>>
    /\ UNCHANGED workerFrame

---------------------------------------------------------------------------
(* The service: the poll loop, the pool and the producer of descriptors *)

PollStep == Scan \/ ExistsCheck \/ Claim \/ Submit

WorkerStep(w) ==
    \/ Take(w) \/ OpenAndValidate(w)
    \/ ValidationMove(w) \/ ValidationWrite(w)
    \/ Run(w) \/ RunRaises(w)
    \/ WriteResult(w) \/ Move(w)
    \/ ExceptMove(w) \/ ExceptWrite(w)
    \/ Finally(w)

FaultStep(w) ==
    \/ ValidationMoveFails(w) \/ ValidationWriteFails(w)
    \/ WriteResultFails(w) \/ MoveFails(w)
    \/ ExceptMoveFails(w) \/ ExceptWriteFails(w)

\* moves and writes never fail and the pool accepts every submission
NextReliable ==
    \/ \E p \in Paths, f \in TaskFiles : CreateFile(p, f)
    \/ PollStep
    \/ \E w \in Workers : WorkerStep(w)

SpecReliableIO == Init /\ [][NextReliable]_vars

\* the environment may make up to MaxFaults I/O calls or submissions fail
Next ==
    \/ NextReliable
    \/ SubmitFails
    \/ \E w \in Workers : FaultStep(w)

Spec == Init /\ [][Next]_vars

---------------------------------------------------------------------------
(* The service killed and started again *)

\* an active set read back from where the previous process left it
ActivePersisted(previous) == previous

\* line 562: active_task_paths as monitor_tasks_folder creates it
ActiveAtStart(previous) == {}

\* the process is killed, at whatever line its threads stand, and started
\* again: the pool, its queue and the active set are gone, the files stay
Restart ==
    /\ starts < 1 + MaxRestarts
    /\ starts' = starts + 1
    /\ cycle' = 0
    /\ leftover' = tasksDir
    /\ sleepLeft' = 0
    /\ active' = ActiveAtStart(active)
    /\ pollPc' = "scan"
    /\ discovered' = <<>>
    /\ queue' = <<>>
    /\ wpc' = [w \in Workers |-> "idle"]
    /\ wpath' = [w \in Workers |-> 0]
    /\ wtask' = [w \in Workers |-> GarbageFile.task_data]
    /\ wsuccess' = [w \in Workers |-> FALSE]
    /\ UNCHANGED <<files, created, tasksDir, history, results, registry, volume,
                   submits, engineCalls, engineOk, engineFailed, processed,
                   moveFailed, faults, submitFailed, dirVars, inflight>>

\* the descriptors dropped while the service is stopped or restarted
LifecycleFiles == {MissingInputFile, FullFile}

NextRestart ==
    \/ \E p \in Paths, f \in LifecycleFiles : CreateFile(p, f)
    \/ PollStep
    \/ \E w \in Workers : WorkerStep(w)
    \/ Restart

\* the poll loop runs for ever and every pool thread is scheduled
SpecRestart ==
    /\ Init
    /\ [][NextRestart]_vars
    /\ WF_vars(PollStep)
    /\ \A w \in Workers : WF_vars(WorkerStep(w))

---------------------------------------------------------------------------
(* The service stopped by KeyboardInterrupt *)

\* a shutdown that cancels the work items still queued
BacklogCancelled(backlog) == <<>>

\* lines 565 and 606-608: leaving the with block calls shutdown(wait=True),
\* which cancels nothing: the pool keeps the work items it has queued
BacklogAtShutdown(backlog) == backlog

\* lines 600-602: KeyboardInterrupt reaches the main thread, at whatever line
\* of the poll loop it stands; the loop is left and the with block shuts the
\* executor down
Interrupt ==
    /\ pollPc \in {"scan", "exists", "claim", "submit"}
    /\ pollPc' = "stopped"
    /\ queue' = BacklogAtShutdown(queue)
    /\ UNCHANGED <<active, discovered, submits, faults, lifeVars>>
    /\ UNCHANGED pollFrame

\* lines 606-608: shutdown(wait=True) has joined every pool thread, and
\* monitor_tasks_folder returns
Return ==
    /\ pollPc = "stopped"
    /\ queue = <<>>
    /\ \A w \in Workers : wpc[w] = "idle"
    /\ pollPc' = "returned"
    /\ UNCHANGED <<active, discovered, queue, submits, faults, lifeVars>>
    /\ UNCHANGED pollFrame

NextStop ==
    \/ \E p \in Paths, f \in LifecycleFiles : CreateFile(p, f)
    \/ PollStep
    \/ \E w \in Workers : WorkerStep(w)
    \/ Interrupt
    \/ Return

\* the poll loop runs until it is interrupted, every pool thread is
\* scheduled, and shutdown returns once the pool is drained
SpecStop ==
    /\ Init
    /\ [][NextStop]_vars
    /\ WF_vars(PollStep)
    /\ \A w \in Workers : WF_vars(WorkerStep(w))
    /\ WF_vars(Return)

---------------------------------------------------------------------------
(* The service with max_concurrent_tasks = 1, the default of line 555 *)

\* the threads of ThreadPoolExecutor(max_workers=1)
PoolOfOne == {1}

NextPoolOfOne ==
    \/ \E p \in Paths, f \in TaskFiles : CreateFile(p, f)
    \/ PollStep
    \/ \E w \in PoolOfOne : WorkerStep(w)

SpecPoolOfOne == Init /\ [][NextPoolOfOne]_vars

---------------------------------------------------------------------------
(* One output directory: tasks run on it one after another *)

DirLabels == {1, 2}
CenterB == <<100, 200, 900>>

\* the prompt specs of the point descriptors run on the directory: each has
\* one positive point; the centre is CenterA, CenterB or absent, and the
\* display name may be absent
DirPrompts ==
    {Prompt(l, <<"ok">>, <<>>, c, AllPromptKeys) :
        l \in DirLabels, c \in {CenterA, CenterB}}
    \cup {Prompt(l, <<"ok">>, <<>>, <<>>,
                 AllPromptKeys \ {"physical_center_of_box"}) : l \in DirLabels}
    \cup {Prompt(l, <<"ok">>, <<>>, CenterA,
                 AllPromptKeys \ {"display_name"}) : l \in DirLabels}

DirPromptLists == UNION {[1..n -> DirPrompts] : n \in 1..MaxPrompts}

\* what infer may do for a prompt: raise, return None, return a field on the
\* grid of NVox voxels, or return a field on another grid
DirOuts ==
    EngineOuts({NVox}, {1})
    \cup {[kind |-> "result", field |-> [v \in 1..(NVox + 1) |-> 9], affine |-> 2]}

\* what a full inference may do: raise, return None, or return the label map
\* of the input image the descriptor names, on that image's grid
DirFullOuts ==
    FullOuts
    \cup {[kind |-> "result", field |-> [v \in 1..(NVox + 1) |-> 7], affine |-> 2]}

\* the directory as an earlier single-prompt task for label 3 left it
PriorPrompt == Prompt(3, <<"ok">>, <<>>, CenterA, AllPromptKeys)
PriorRegistry ==
    [exists |-> TRUE, rois |-> FinalRois(<<PriorPrompt>>, ExistingRoisMap(NoRegistry))]
\* the registry as an earlier task naming label 3 twice left it
PriorTwiceRegistry ==
    [exists |-> TRUE,
     rois |-> FinalRois(<<PriorPrompt,
                          Prompt(3, <<"ok">>, <<>>, CenterB,
                                 AllPromptKeys \ {"display_name"})>>,
                        ExistingRoisMap(NoRegistry))]
PriorVolume ==
    PointVolume(NoVolume,
                <<[label_id |-> 3,
                   mask_tensor |-> [v \in 1..NVox |-> IF v = 1 THEN 9 ELSE 5],
                   affine |-> 1, display_name |-> "organ"]>>)

InitDir ==
    /\ files = [p \in Paths |-> GarbageFile]
    /\ created = {}
    /\ tasksDir = {}
    /\ history = [p \in Paths |-> <<>>]
    /\ results = [p \in Paths |-> <<>>]
    /\ \/ registry = NoRegistry /\ volume = NoVolume
       \/ registry = PriorRegistry /\ volume = PriorVolume
       \/ registry = PriorTwiceRegistry /\ volume = PriorVolume
    /\ active = {}
    /\ pollPc = "scan"
    /\ discovered = <<>>
    /\ queue = <<>>
    /\ wpc = [w \in Workers |-> "idle"]
    /\ wpath = [w \in Workers |-> 0]
    /\ wtask = [w \in Workers |-> GarbageFile.task_data]
    /\ wsuccess = [w \in Workers |-> FALSE]
    /\ submits = [p \in Paths |-> 0]
    /\ engineCalls = [p \in Paths |-> 0]
    /\ engineOk = {}
    /\ engineFailed = {}
    /\ processed = {}
    /\ moveFailed = {}
    /\ faults = 0
    /\ lastTask = GarbageFile.task_data
    /\ lastRun = NoRun
    /\ nTasks = 0
    /\ inflight = [w \in Workers |-> NoCall]
    /\ submitFailed = {}
    /\ starts = 1
    /\ cycle = 0
    /\ leftover = {}
    /\ sleepLeft = 0

\* run_vista3d_task runs on the directory and its outcome is noted
RunOnDir(task_data, outs, again) ==
    LET r == RunVista3dTask(task_data, registry, volume, outs)
    IN  /\ registry' = r.registry
        /\ volume' = r.volume
        /\ lastTask' = task_data
        /\ lastRun' = [seq |-> lastRun.seq + 1,
                       kind |-> task_data.segmentation_type,
                       success |-> r.success, calls |-> r.calls,
                       results_new |-> r.results_new,
                       volume_saved |-> r.volume_saved,
                       resubmission |-> again,
                       prior_success |-> again /\ lastRun.success]
        /\ UNCHANGED <<serviceVars, inflight, lifeVars>>

\* a point descriptor is processed
PointTask ==
    /\ nTasks < MaxTasks
    /\ nTasks' = nTasks + 1
    /\ \E prompts \in DirPromptLists :
          \E outs \in [1..Len(PromptsToProcess(prompts, ExistingRoisMap(registry)))
                          -> DirOuts] :
              RunOnDir(Descriptor("point", prompts), outs, FALSE)

\* a full descriptor is processed
FullTask ==
    /\ nTasks < MaxTasks
    /\ nTasks' = nTasks + 1
    /\ \E out \in DirFullOuts :
          RunOnDir(Descriptor("full", <<>>), <<out>>, FALSE)

\* the descriptor processed last is submitted again, unchanged
Resubmit ==
    /\ lastRun.kind = "point"
    /\ ~lastRun.resubmission
    /\ UNCHANGED nTasks
    /\ \E outs \in [1..Len(PromptsToProcess(lastTask.segmentation_prompts,
                                           ExistingRoisMap(registry)))
                       -> DirOuts] :
          RunOnDir(lastTask, outs, TRUE)

NextDir == PointTask \/ FullTask \/ Resubmit

SpecDir == InitDir /\ [][NextDir]_vars

---------------------------------------------------------------------------
(* One output directory: point tasks run on it at the same time, each in its
   own pool thread.  run_vista3d_task takes no lock, so its reads and writes
   of ct_seg.json and ct_seg.nii.gz interleave with those of the other
   threads. *)

\* the labels of the descriptor thread w runs: no two descriptors share one
RaceLabels(w) == <<2 * w - 1, 2 * w>>

\* the descriptor thread w runs: two prompts with centres
RaceTask(w) ==
    Descriptor("point",
        <<Prompt(RaceLabels(w)[1], <<"ok">>, <<>>, CenterA, AllPromptKeys),
          Prompt(RaceLabels(w)[2], <<"ok">>, <<>>, CenterB, AllPromptKeys)>>)

\* what infer may do for a prompt: raise, return None or return a field
RaceOuts == EngineOuts({NVox}, {1})

InitRace ==
    /\ InitDir
    /\ registry # PriorTwiceRegistry

\* a thread moves to another line of run_vista3d_task
At(w, call) == inflight' = [inflight EXCEPT ![w] = call]

Running(w) == inflight[w].pc \notin {"none", "done"}

raceFrame == <<serviceVars, dirVars, lifeVars>>

\* lines 229-250: the thread enters run_vista3d_task and reads ct_seg.json
ReadRegistry(w) ==
    /\ inflight[w].pc = "none"
    /\ LET others == {u \in Workers \ {w} : Running(u)}
       IN  inflight' =
              [u \in Workers |->
                  IF u = w
                  THEN [inflight[w] EXCEPT
                          !.pc = "infer",
                          !.task_data = RaceTask(w),
                          !.existing_rois_map = ExistingRoisMap(registry),
                          !.overlapped = others # {}]
                  ELSE IF u \in others
                  THEN [inflight[u] EXCEPT !.overlapped = TRUE]
                  ELSE inflight[u]]
    /\ UNCHANGED <<registry, volume>>
    /\ UNCHANGED raceFrame

\* lines 252-321: change detection against the registry as read, and the
\* infer calls; an exception ends the run at line 458 with nothing written
Infer(w) ==
    /\ inflight[w].pc = "infer"
    /\ LET to_process == PromptsToProcess(inflight[w].task_data.segmentation_prompts,
                                          inflight[w].existing_rois_map)
       IN  \E outs \in [1..Len(to_process) -> RaceOuts] :
              IF RaiseAt(to_process, outs) # 0
              THEN At(w, [inflight[w] EXCEPT !.pc = "done", !.success = FALSE])
              ELSE At(w, [inflight[w] EXCEPT
                            !.pc = "load",
                            !.results_new = ResultsNew(to_process, outs,
                                                       Len(to_process))])
    /\ UNCHANGED <<registry, volume>>
    /\ UNCHANGED raceFrame

\* lines 328-336: nib.load of ct_seg.nii.gz, when it is there
LoadVolume(w) ==
    /\ inflight[w].pc = "load"
    /\ At(w, [inflight[w] EXCEPT !.pc = "save", !.mask = volume])
    /\ UNCHANGED <<registry, volume>>
    /\ UNCHANGED raceFrame

\* lines 338-368: the results are merged into the mask as loaded and nib.save
\* writes it over ct_seg.nii.gz
SaveVolume(w) ==
    /\ inflight[w].pc = "save"
    /\ volume' = IF PointVolumeSaved(inflight[w].mask, inflight[w].results_new)
                 THEN PointVolume(inflight[w].mask, inflight[w].results_new)
                 ELSE volume
    /\ At(w, [inflight[w] EXCEPT !.pc = "roi"])
    /\ UNCHANGED registry
    /\ UNCHANGED raceFrame

\* lines 377-433: ct_seg.json is rebuilt from the registry as read at line 242
\* and written
WriteRegistry(w) ==
    /\ inflight[w].pc = "roi"
    /\ registry' =
          [exists |-> TRUE,
           rois |-> FinalRois(inflight[w].task_data.segmentation_prompts,
                              inflight[w].existing_rois_map)]
    /\ At(w, [inflight[w] EXCEPT !.pc = "done", !.success = TRUE])
    /\ UNCHANGED volume
    /\ UNCHANGED raceFrame

NextRace ==
    \E w \in Workers :
        \/ ReadRegistry(w) \/ Infer(w) \/ LoadVolume(w)
        \/ SaveVolume(w) \/ WriteRegistry(w)

SpecRace == InitRace /\ [][NextRace]_vars

---------------------------------------------------------------------------
(* Properties of the dispatcher and the worker *)

\* the work items for a path that the pool holds, queued or running
QueuedFor(p) == {i \in 1..Len(queue) : queue[i] = p}
RunningFor(p) == {w \in Workers : wpath[w] = p}
WorkItems(p) == Cardinality(QueuedFor(p)) + Cardinality(RunningFor(p))

\* C1: a path that is in the active set is never submitted again: the pool
\* never holds two work items (queued or running) for the same descriptor,
\* and whatever it holds for a descriptor is covered by the active set.
C1_NoSecondSubmissionWhileActive ==
    \A p \in Paths :
        /\ WorkItems(p) <= 1
        /\ WorkItems(p) = 1 => p \in active

\* the poll loop rediscovers a descriptor a worker is processing and is about
\* to skip it at the locked check
C1_Witness ==
    /\ pollPc = "claim"
    /\ Head(discovered) \in active
    /\ RunningFor(Head(discovered)) # {}

\* C2: each descriptor file is claimed once: between its appearance and its
\* archival the dispatcher submits it to the pool one time only.
C2_SubmittedOnce ==
    \A p \in Paths : submits[p] <= 1

C4_ExactlyOneRecord ==
    \A p \in processed : WorkItems(p) = 0 => Len(results[p]) = 1

C9_EmptyPromptRejected ==
    \A p \in created :
        HasEmptyPrompt(files[p]) =>
            /\ ~ValidateTask(files[p].task_data).valid
            /\ engineCalls[p] = 0
            /\ p \in processed =>
                  /\ history[p] = <<"failed_validation_">>
                  /\ results[p] # <<>>
                  /\ \A i \in 1..Len(results[p]) : ~results[p][i].success

\* a worker has finished a descriptor with an empty prompt spec
C9_Witness ==
    \E p \in processed :
        /\ HasEmptyPrompt(files[p])
        /\ history[p] = <<"failed_validation_">>
        /\ results[p][1].message = "Validation Failed"

\* C10: a full descriptor for an existing input whose inference returned a
\* result has, once no worker holds it any more, exactly one result record,
\* with success = true and an output_mask path, and is out of the watched
\* directory.
C10_FullTaskEndToEnd ==
    \A p \in processed :
        (files[p] = FullFile /\ p \in engineOk /\ WorkItems(p) = 0) =>
            /\ Len(results[p]) = 1
            /\ results[p][1].success
            /\ results[p][1].output_mask
            /\ p \notin tasksDir

\* C12: when an infer call of a descriptor's task raised or returned None, no
\* record written for the descriptor has success = true.
C12_EngineFailureMeansFailedRecord ==
    \A p \in engineFailed :
        \A i \in 1..Len(results[p]) : ~results[p][i].success

\* C13: the prefix of an archived descriptor follows the outcome of its task.
\* Once a worker has finished a descriptor: one that validate_task rejects is
\* archived under failed_validation_; one whose task met a failing infer call
\* is archived under error_processing_; and a descriptor archived without
\* prefix has a record with success = true.
C13_PrefixFollowsOutcome ==
    \A p \in processed :
        /\ (files[p].parsable /\ ~ValidateTask(files[p].task_data).valid) =>
                history[p] = <<"failed_validation_">>
        /\ (p \in engineFailed /\ \A i \in 1..Len(results[p]) : ~results[p][i].success) =>
                \A i \in 1..Len(history[p]) : history[p][i] = "error_processing_"
        /\ (\E i \in 1..Len(history[p]) : history[p][i] = "") =>
                \E i \in 1..Len(results[p]) : results[p][i].success

\* the step in which executor.submit raises for the claimed descriptor
SubmitFailureStep ==
    /\ pollPc = "submit"
    /\ pollPc' # "submit"
    /\ submits' = submits

\* C19: when executor.submit raises, the claim is released in the same step
\* in which the poll loop goes on to the next descriptor, and the descriptor
\* stays in the watched directory; and a descriptor whose submissions have all
\* failed is in the active set only while the poll loop, having claimed it
\* again, is handing it to the pool: a later scan finds it claimable.
C19_SubmitFailureReleasesClaim ==
    [][/\ SubmitFailureStep =>
            /\ Head(discovered) \notin active'
            /\ discovered' = Tail(discovered)
            /\ tasksDir' = tasksDir
       /\ \A p \in submitFailed :
            (submits[p] = 0 /\ p \in active) =>
                (pollPc = "submit" /\ Head(discovered) = p)]_vars

\* a descriptor whose submission failed was claimed and submitted again by a
\* later scan, and a worker has processed and archived it
C19_Witness ==
    \E p \in submitFailed :
        /\ submits[p] = 1
        /\ p \in processed
        /\ p \notin tasksDir
        /\ p \notin active

\* C11: a descriptor that is in the watched directory when the service is
\* started again is listed, claimed and submitted in the first poll cycle
\* after the restart (when that cycle's for loop has ended no such descriptor
\* is left unsubmitted), and a worker then processes it to the end, unless the
\* process is killed once more before that.
C11_LeftoverReprocessedAfterRestart ==
    /\ []((starts > 1 /\ cycle >= 1 /\ pollPc = "scan") => leftover = {})
    /\ \A p \in Paths : \A n \in 2..(1 + MaxRestarts) :
          (starts = n /\ p \in leftover)
              ~> ((p \notin leftover /\ p \in processed) \/ starts > n)

\* a descriptor that had been submitted before the process was killed is still
\* in the watched directory; the first poll cycle after the restart has claimed
\* it again and is handing it to the pool
C11_Witness ==
    /\ starts = 2
    /\ cycle = 1
    /\ pollPc = "submit"
    /\ Head(discovered) \in leftover
    /\ submits[Head(discovered)] = 1
    /\ Head(discovered) \in active

\* the descriptor has been processed to completion: a worker ran
\* process_task_file to its end, a record is written and the file is archived
Completed(p) ==
    /\ p \in processed
    /\ results[p] # <<>>
    /\ history[p] # <<>>
    /\ p \notin tasksDir

\* C18 as stated: when monitor_tasks_folder has returned after the stop
\* signal, every descriptor that was claimed has been processed to completion
\* and its claim is released: the pool is empty, every submitted descriptor is
\* completed and the active set is empty.
C18_StopDrainsEveryClaim ==
    pollPc = "returned" =>
        /\ queue = <<>>
        /\ \A w \in Workers : wpc[w] = "idle"
        /\ \A p \in Paths : submits[p] >= 1 => Completed(p)
        /\ active = {}

\* C18 as amended: after the stop signal nothing is claimed or submitted any
\* more; monitor_tasks_folder does return; and when it has returned the pool
\* is empty and every descriptor that was submitted is completed.  The active
\* set then holds at most the one descriptor the poll loop had claimed but not
\* yet submitted when the signal arrived.
C18_StopDrainsEverySubmission ==
    /\ [][(pollPc = "stopped" \/ pollPc = "returned") =>
            (active' \subseteq active /\ submits' = submits)]_vars
    /\ [](pollPc = "returned" =>
            /\ queue = <<>>
            /\ \A w \in Workers : wpc[w] = "idle"
            /\ \A p \in Paths : submits[p] >= 1 => Completed(p)
            /\ active \subseteq
                  (IF discovered = <<>> THEN {} ELSE {Head(discovered)}))
    /\ (pollPc = "stopped") ~> (pollPc = "returned")

\* the signal arrived while one descriptor was running and another was queued
\* or running; monitor_tasks_folder has returned and both are completed
C18_Witness ==
    /\ pollPc = "returned"
    /\ \A p \in Paths : submits[p] = 1 /\ Completed(p)
    /\ active = {}

\* every thread of the pool is running a work item
Saturated == \A w \in PoolOfOne : wpc[w] # "idle"

\* the poll loop leaves line 590
SubmitStep == pollPc = "submit" /\ pollPc' # "submit"

\* the descriptors the poll loop has claimed and not handed to the pool yet
HandingOver == IF pollPc = "submit" THEN 1 ELSE 0

\* what the pool is executing plus its backlog
PoolLoad == Cardinality({w \in Workers : wpc[w] # "idle"}) + Len(queue)

\* C20 as stated: while every thread of the pool is busy no descriptor is
\* submitted.
C20_NoSubmissionWhileSaturated ==
    [][Saturated => submits' = submits]_vars

\* C20 as amended: while every thread of the pool is busy, a descriptor the
\* poll loop has claimed is submitted all the same and joins the pool's
\* backlog; and at any time the claimed descriptors are no more than what the
\* pool is executing plus its backlog, plus the one being handed over.
C20_SubmissionJoinsBacklog ==
    [][/\ (Saturated /\ SubmitStep) =>
            /\ queue' = Append(queue, Head(discovered))
            /\ submits'[Head(discovered)] = submits[Head(discovered)] + 1
       /\ Cardinality(active) <= PoolLoad + HandingOver]_vars

\* the only thread of the pool is running one descriptor while another,
\* submitted meanwhile, waits in the backlog
C20_Witness ==
    /\ Saturated
    /\ wpc[1] = "run"
    /\ Len(queue) = 1
    /\ queue[1] # wpath[1]
    /\ active = {wpath[1], queue[1]}

---------------------------------------------------------------------------
(* Properties of run_vista3d_task on one output directory *)

\* the step is a run of a point descriptor
PointRunStep ==
    /\ lastRun'.seq = lastRun.seq + 1
    /\ lastRun'.kind = "point"

\* the step submits again, unchanged, the point descriptor that ran last
ResubmissionStep == PointRunStep /\ lastRun'.resubmission

\* every prompt spec carries a valid physical_center_of_box
AllCentersValid(task_data) ==
    \A i \in 1..Len(task_data.segmentation_prompts) :
        GetRoiCenterPhysical(task_data.segmentation_prompts[i]) # None

\* prompt specs that share a label carry the same centre
SameLabelSameCenter(task_data) ==
    LET ps == task_data.segmentation_prompts
    IN  \A i, j \in 1..Len(ps) :
            ps[i].target_output_label = ps[j].target_output_label
                => GetRoiCenterPhysical(ps[i]) = GetRoiCenterPhysical(ps[j])

\* C6 as stated: the second, unchanged submission of a point descriptor makes
\* no infer call and leaves the volume and the registry as the first run left
\* them.
C6_ResubmissionIdempotent ==
    [][ResubmissionStep =>
            /\ lastRun'.calls = 0
            /\ volume' = volume
            /\ registry' = registry]_vars

\* C6 as amended: the same, for a descriptor whose first run returned success,
\* whose prompt specs all carry a valid physical_center_of_box, and in which
\* prompt specs that share a label carry the same centre.
C6_ResubmissionIdempotentWithCenters ==
    [][(/\ ResubmissionStep
        /\ lastRun.success
        /\ AllCentersValid(lastTask)
        /\ SameLabelSameCenter(lastTask)) =>
            /\ lastRun'.calls = 0
            /\ volume' = volume
            /\ registry' = registry]_vars

\* a two-prompt descriptor with centres, whose first run merged results into
\* the volume, was submitted again and no infer call was made
C6_Witness ==
    /\ lastRun.resubmission
    /\ lastRun.prior_success
    /\ Len(lastTask.segmentation_prompts) = 2
    /\ AllCentersValid(lastTask)
    /\ SameLabelSameCenter(lastTask)
    /\ lastRun.calls = 0
    /\ volume.exists /\ \E v \in 1..Len(volume.data) : volume.data[v] \in DirLabels
    /\ registry.exists

\* the results of the last run that were merged: those on the volume's grid
Merged(j) ==
    /\ j \in 1..Len(lastRun.results_new)
    /\ Len(lastRun.results_new[j].mask_tensor) = Len(volume.data)

\* the last merged result whose binarized field covers voxel v, 0 if none
LastCover(v) ==
    LET covering == {j \in 1..Len(lastRun.results_new) :
                        Merged(j) /\ lastRun.results_new[j].mask_tensor[v] > Threshold}
    IN  IF covering = {} THEN 0
        ELSE CHOOSE j \in covering : \A k \in covering : k <= j

\* the last merged result for label l
LastFor(l) ==
    CHOOSE j \in 1..Len(lastRun.results_new) :
        /\ Merged(j) /\ lastRun.results_new[j].label_id = l
        /\ \A k \in 1..Len(lastRun.results_new) :
              (Merged(k) /\ lastRun.results_new[k].label_id = l) => k <= j

\* C7: results are merged in the order of the prompt list.  After a point run
\* every voxel covered by a merged result holds the label of the last result
\* covering it (of two overlapping results the later wins) unless a later
\* result for that same label left the voxel out, and then it holds 0; a voxel
\* holding a label that was merged lies in the field of the last result for
\* that label (the last occurrence of a label determines its voxels); and
\* when every prompt produced a result the results stand in prompt order.
C7_LaterPromptWins ==
    (lastRun.kind = "point" /\ lastRun.success /\ lastRun.results_new # <<>>) =>
        /\ \A v \in 1..Len(volume.data) :
              LastCover(v) # 0 =>
                  LET l == lastRun.results_new[LastCover(v)].label_id
                  IN  volume.data[v] = IF LastFor(l) = LastCover(v) THEN l ELSE 0
        /\ \A v \in 1..Len(volume.data) :
              \A j \in 1..Len(lastRun.results_new) :
                  (Merged(j) /\ volume.data[v] = lastRun.results_new[j].label_id) =>
                      lastRun.results_new[LastFor(volume.data[v])].mask_tensor[v]
                          > Threshold
        /\ Len(lastRun.results_new) = Len(lastTask.segmentation_prompts) =>
              \A i \in 1..Len(lastRun.results_new) :
                  lastRun.results_new[i].label_id =
                      lastTask.segmentation_prompts[i].target_output_label

\* two prompts with different labels, first 1 then 2, whose results overlap, and a
\* voxel of the overlap
C7_Witness ==
    /\ lastRun.kind = "point" /\ lastRun.success
    /\ Len(lastRun.results_new) = 2
    /\ lastRun.results_new[1].label_id = 1
    /\ lastRun.results_new[2].label_id = 2
    /\ \E v \in 1..Len(volume.data) :
          /\ Merged(1) /\ Merged(2)
          /\ lastRun.results_new[1].mask_tensor[v] > Threshold
          /\ lastRun.results_new[2].mask_tensor[v] > Threshold
          /\ volume.data[v] = 2

\* the entries of the registry file before the step
OldRois == IF registry.exists THEN registry.rois ELSE <<>>

\* the labels the descriptor of the step names
TaskLabels ==
    {lastTask'.segmentation_prompts[i].target_output_label :
        i \in 1..Len(lastTask'.segmentation_prompts)}

\* the step is a successful run of a point descriptor with several prompts
MultiPromptStep ==
    /\ PointRunStep
    /\ lastRun'.success
    /\ Len(lastTask'.segmentation_prompts) > 1

\* the entry without its colour
Uncoloured(roi) == [roi EXCEPT !.ROIColor = None]

\* C8 as stated: after a multi-prompt point task the registry holds an entry
\* for every label of the descriptor, and every earlier entry whose label the
\* descriptor does not name, identical in every field (ROIColor included).
C8_OtherEntriesIdentical ==
    [][MultiPromptStep =>
            /\ \A l \in TaskLabels :
                  \E j \in 1..Len(registry'.rois) : registry'.rois[j].ROIIndex = l
            /\ \A i \in 1..Len(OldRois) :
                  OldRois[i].ROIIndex \notin TaskLabels =>
                      \E j \in 1..Len(registry'.rois) : registry'.rois[j] = OldRois[i]]_vars

\* C8 as amended: after a multi-prompt point task the registry holds an entry
\* for every prompt of the descriptor, refreshed from it, and, for every label
\* of the earlier registry that the descriptor does not name, exactly the last
\* earlier entry with that label, identical in ROIIndex, ROIName, ROICenter
\* and visible; every entry's ROIColor is the palette colour of the position
\* of its label in the new sorted list.
C8_OtherEntriesKeptButRecoloured ==
    [][MultiPromptStep =>
            LET new == registry'.rois
                old == ExistingRoisMap(registry)
                ps == lastTask'.segmentation_prompts
            IN  /\ \A i \in 1..Len(ps) :
                      \E j \in 1..Len(new) :
                          /\ new[j].ROIIndex = ps[i].target_output_label
                          /\ new[j].ROIName = DisplayName(ps[i])
                          /\ new[j].ROICenter = GetRoiCenterPhysical(ps[i])
                          /\ new[j].visible
                /\ \A l \in DOMAIN old \ TaskLabels :
                      /\ \E j \in 1..Len(new) : Uncoloured(new[j]) = Uncoloured(old[l])
                      /\ \A j \in 1..Len(new) :
                            new[j].ROIIndex = l => Uncoloured(new[j]) = Uncoloured(old[l])
                /\ \A j \in 1..Len(new) :
                      /\ new[j].ROIIndex \in TaskLabels \cup DOMAIN old
                      /\ new[j].ROIColor =
                            RoiColors[(Cardinality({k \in 1..Len(new) :
                                          new[k].ROIIndex < new[j].ROIIndex})
                                       % Len(RoiColors)) + 1]]_vars

\* a descriptor with prompts for labels 1 and 2 ran on a directory whose
\* registry held label 3: the entry for 3 is still there, under a new colour
C8_Witness ==
    /\ lastRun.kind = "point" /\ lastRun.success /\ ~lastRun.resubmission
    /\ Len(lastTask.segmentation_prompts) = 2
    /\ lastTask.segmentation_prompts[1].target_output_label = 1
    /\ lastTask.segmentation_prompts[2].target_output_label = 2
    /\ Len(registry.rois) = 3
    /\ registry.rois[3].ROIIndex = 3
    /\ registry.rois[3].ROIName = "organ"
    /\ registry.rois[3].ROIColor = RoiColors[3]

\* C14: a point task that produces no new segmentation result on a directory
\* that holds a volume does not write the volume file, and the volume keeps
\* its contents.
C14_NoResultsNoVolumeWrite ==
    [][(PointRunStep /\ volume.exists /\ lastRun'.results_new = <<>>) =>
            /\ ~lastRun'.volume_saved
            /\ volume' = volume]_vars

\* C15: once the directory holds a volume, no task changes the volume's grid
\* shape or its spatial transform.
C15_GeometryConstant ==
    [][volume.exists =>
            /\ volume'.exists
            /\ Len(volume'.data) = Len(volume.data)
            /\ volume'.affine = volume.affine]_vars

\* the labels of the new results of the step's run
NewLabels ==
    {lastRun'.results_new[j].label_id : j \in 1..Len(lastRun'.results_new)}

\* voxel v lies in the binarized field of a new result on the volume's grid
CoveredByNew(v) ==
    \E j \in 1..Len(lastRun'.results_new) :
        /\ Len(lastRun'.results_new[j].mask_tensor) = Len(volume.data)
        /\ lastRun'.results_new[j].mask_tensor[v] > Threshold

\* C16 as stated: after a point task every voxel that held a nonzero label
\* outside the labels of the new results holds the same label.
C16_UnrelatedLabelsKept ==
    [][(PointRunStep /\ volume.exists) =>
            \A v \in 1..Len(volume.data) :
                (volume.data[v] # 0 /\ volume.data[v] \notin NewLabels) =>
                    volume'.data[v] = volume.data[v]]_vars

\* C16 as amended: after a point task every voxel that held a nonzero label
\* outside the labels of the new results, and that lies in the binarized
\* field of no new result, holds the same label; a voxel in such a field
\* holds a label of the new results.
C16_UnrelatedLabelsKeptOutsideNewFields ==
    [][(PointRunStep /\ volume.exists) =>
            \A v \in 1..Len(volume.data) :
                /\ (volume.data[v] # 0 /\ volume.data[v] \notin NewLabels
                        /\ ~CoveredByNew(v)) =>
                       volume'.data[v] = volume.data[v]
                /\ CoveredByNew(v) => volume'.data[v] \in NewLabels \cup {0}]_vars

\* a point task merged a result for label 1 into a volume holding label 3:
\* the voxel outside the new field still holds 3
C16_Witness ==
    /\ lastRun.kind = "point" /\ lastRun.success /\ ~lastRun.resubmission
    /\ Len(lastRun.results_new) = 1
    /\ lastRun.results_new[1].label_id = 1
    /\ lastRun.results_new[1].mask_tensor = <<5, 9>>
    /\ volume.data = <<3, 1>>

---------------------------------------------------------------------------
(* Properties of point tasks running at the same time on one directory *)

\* the labels of the registry file
RegistryLabels == {registry.rois[i].ROIIndex : i \in 1..Len(registry.rois)}

\* thread w has returned from run_vista3d_task with success
Returned(w) == inflight[w].pc = "done" /\ inflight[w].success

\* the labels of the results of thread w whose binarized field covers voxel v
CoveringLabels(w, v) ==
    {inflight[w].results_new[j].label_id :
        j \in {k \in 1..Len(inflight[w].results_new) :
                  inflight[w].results_new[k].mask_tensor[v] > Threshold}}

\* the registry lacks a label of the descriptor thread w ran
RegistryLost(w) ==
    \E i \in 1..2 : RaceLabels(w)[i] \notin RegistryLabels

\* the volume lacks a label that thread w merged at a voxel no other thread's
\* result covers
VolumeLost(w) ==
    \E v \in 1..NVox :
        /\ CoveringLabels(w, v) # {}
        /\ \A u \in Workers \ {w} : CoveringLabels(u, v) = {}
        /\ volume.data[v] \notin CoveringLabels(w, v)

\* C17: the volume and the registry are read and written back without a lock,
\* so an update can be lost, and only by tasks that ran at the same time: when
\* a task has returned success and the registry lacks one of its labels, or
\* the volume lacks its label at a voxel that only its results cover, another
\* task was inside run_vista3d_task while it ran.
C17_LostUpdateOnlyWhenOverlapping ==
    \A w \in Workers :
        (Returned(w) /\ (RegistryLost(w) \/ VolumeLost(w))) =>
            inflight[w].overlapped

\* both tasks have returned success, and the registry and the volume lack a
\* label that the task of thread 1 wrote: a lost update
C17_Witness ==
    /\ \A w \in Workers : Returned(w)
    /\ RegistryLost(1)
    /\ VolumeLost(1)
    /\ ~RegistryLost(2)

---------------------------------------------------------------------------
(* Change detection at the tolerance: a point task runs on a directory that
   an earlier point task wrote *)

\* centres in units of 1e-4: the second and third lie 1.0e-3 and 1.1e-3 from
\* the first on one axis, the last lies 1.5e-3 from the fourth
CenterAtTolerance == <<110, 200, 300>>
CenterOverTolerance == <<111, 200, 300>>
CenterFar == <<1000000, 200, 300>>
CenterFarMoved == <<1000015, 200, 300>>
DetectCenters ==
    {CenterA, CenterAtTolerance, CenterOverTolerance, CenterFar, CenterFarMoved}

DetectLabels == {1, 2}

\* the prompt specs of the descriptors: the centre is one of DetectCenters,
\* absent, or a list of 3 entries that are not all numbers
DetectPrompts ==
    {Prompt(l, <<"ok">>, <<>>, c, AllPromptKeys) :
        l \in DetectLabels, c \in DetectCenters}
    \cup {Prompt(l, <<"ok">>, <<>>, <<>>,
                 AllPromptKeys \ {"physical_center_of_box"}) : l \in DetectLabels}
    \cup {[Prompt(l, <<"ok">>, <<>>, CenterA, AllPromptKeys)
              EXCEPT !.center_numeric = FALSE] : l \in DetectLabels}

DetectPromptLists == UNION {[1..n -> DetectPrompts] : n \in 1..MaxPrompts}

\* the registries an earlier task with a prompt for label 1 and one for label
\* 3 wrote
DetectRegistries ==
    {[exists |-> TRUE,
      rois |-> FinalRois(<<p, PriorPrompt>>, ExistingRoisMap(NoRegistry))] :
        p \in {q \in DetectPrompts : q.target_output_label = 1}}

\* the volume that task saved: label 1 on voxel 1, label 3 on the others
DetectVolume ==
    PointVolume(NoVolume,
                <<[label_id |-> 1, mask_tensor |-> [v \in 1..NVox |-> 9],
                   affine |-> 1, display_name |-> "organ"],
                  [label_id |-> 3,
                   mask_tensor |-> [v \in 1..NVox |-> IF v = 1 THEN 5 ELSE 9],
                   affine |-> 1, display_name |-> "organ"]>>)

InitDetect ==
    /\ files = [p \in Paths |-> GarbageFile]
    /\ created = {}
    /\ tasksDir = {}
    /\ history = [p \in Paths |-> <<>>]
    /\ results = [p \in Paths |-> <<>>]
    /\ \/ registry = NoRegistry /\ volume = NoVolume
       \/ registry \in DetectRegistries /\ volume = DetectVolume
    /\ active = {}
    /\ pollPc = "scan"
    /\ discovered = <<>>
    /\ queue = <<>>
    /\ wpc = [w \in Workers |-> "idle"]
    /\ wpath = [w \in Workers |-> 0]
    /\ wtask = [w \in Workers |-> GarbageFile.task_data]
    /\ wsuccess = [w \in Workers |-> FALSE]
    /\ submits = [p \in Paths |-> 0]
    /\ engineCalls = [p \in Paths |-> 0]
    /\ engineOk = {}
    /\ engineFailed = {}
    /\ processed = {}
    /\ moveFailed = {}
    /\ faults = 0
    /\ lastTask = GarbageFile.task_data
    /\ lastRun = NoRun
    /\ nTasks = 0
    /\ inflight = [w \in Workers |-> NoCall]
    /\ submitFailed = {}
    /\ starts = 1
    /\ cycle = 0
    /\ leftover = {}
    /\ sleepLeft = 0

\* a point descriptor is processed
DetectTask ==
    /\ nTasks < MaxTasks
    /\ nTasks' = nTasks + 1
    /\ \E prompts \in DetectPromptLists :
          \E outs \in [1..Len(PromptsToProcess(prompts, ExistingRoisMap(registry)))
                          -> EngineOuts({NVox}, {1})] :
              RunOnDir(Descriptor("point", prompts), outs, FALSE)

NextDetect == DetectTask

SpecDetect == InitDetect /\ [][NextDetect]_vars

---------------------------------------------------------------------------
(* Properties of the change detection *)

\* the prompt's centre is absent or invalid, or the registry has no entry for
\* its label, or the entry's centre is not within 1e-3 of it on every axis
CenterChanged(prompt_spec, existing_rois_map) ==
    LET l == prompt_spec.target_output_label
        c == GetRoiCenterPhysical(prompt_spec)
    IN  \/ c = None
        \/ l \notin DOMAIN existing_rois_map
        \/ existing_rois_map[l].ROICenter = None
        \/ \E i \in 1..3 :
              Abs(c[i] - existing_rois_map[l].ROICenter[i]) > AtolUnits

\* C21: in a point task a prompt spec is passed to the engine if and only if
\* its centre is absent or invalid, or the registry has no entry for its
\* label, or the entry's centre differs from it by more than the fixed
\* tolerance 1e-3: the prompts scheduled are exactly those, and a task that
\* ends with success made one engine call for each of them and merged no
\* result of another prompt.
C21_EngineIffCenterChanged ==
    [][PointRunStep =>
        LET ps == lastTask'.segmentation_prompts
            map == ExistingRoisMap(registry)
            Changed(p) == CenterChanged(p, map)
        IN  /\ PromptsToProcess(ps, map) = SelectSeq(ps, Changed)
            /\ lastRun'.success =>
                  /\ lastRun'.calls = Len(SelectSeq(ps, Changed))
                  /\ \A i \in 1..Len(lastRun'.results_new) :
                        \E j \in 1..Len(ps) :
                            /\ Changed(ps[j])
                            /\ ps[j].target_output_label
                                  = lastRun'.results_new[i].label_id]_vars

---------------------------------------------------------------------------
(* Properties of the mask combination *)

\* the voxels of the volume written by the step that hold label l
VoxelsHolding(l) == {v \in 1..Len(volume'.data) : volume'.data[v] = l}

\* the voxels in the binarized field of the step's j-th result that no result
\* merged after it covers
FieldKept(j) ==
    {v \in 1..Len(volume'.data) :
        /\ lastRun'.results_new[j].mask_tensor[v] > Threshold
        /\ LastCover(v)' = j}

\* the step's j-th result is the last one it merged for label l
LastMergedFor(l, j) ==
    /\ Merged(j)'
    /\ lastRun'.results_new[j].label_id = l
    /\ \A k \in (j + 1)..Len(lastRun'.results_new) :
          Merged(k)' => lastRun'.results_new[k].label_id # l

\* the voxels that held l before the step and lie outside the binarized field
\* of the step's j-th result
StaleVoxels(l, j) ==
    {v \in 1..Len(volume.data) :
        /\ volume.data[v] = l
        /\ lastRun'.results_new[j].mask_tensor[v] <= Threshold}

\* C22 as stated: after a merge applies a new result for label L, the voxels
\* holding L are exactly those of that result's binarized field (value above
\* 0.5) minus the voxels overwritten by results applied later in the same
\* merge, and every voxel that held L before the merge and lies outside the
\* new field no longer holds L.
C22_EveryResultOwnsItsLabel ==
    [][(PointRunStep /\ lastRun'.success) =>
        \A j \in 1..Len(lastRun'.results_new) :
            Merged(j)' =>
                LET l == lastRun'.results_new[j].label_id
                IN  /\ VoxelsHolding(l) = FieldKept(j)
                    /\ StaleVoxels(l, j) \cap VoxelsHolding(l) = {}]_vars

\* C22, amended: the statement holds of the last result the merge applies for
\* label L.  The voxels holding L after the merge are exactly those of that
\* result's binarized field minus the voxels covered by results applied after
\* it, and every voxel that held L before the merge and lies outside that
\* field no longer holds L.
C22_LastResultOwnsItsLabel ==
    [][(PointRunStep /\ lastRun'.success) =>
        \A j \in 1..Len(lastRun'.results_new) :
            LET l == lastRun'.results_new[j].label_id
            IN  LastMergedFor(l, j) =>
                    /\ VoxelsHolding(l) = FieldKept(j)
                    /\ StaleVoxels(l, j) \cap VoxelsHolding(l) = {}]_vars

\* two results for label 1 were merged: the first put the label on voxel 1
\* only, the second on voxel 2 only, and the volume holds it on voxel 2 only
C22_Witness ==
    /\ lastRun.kind = "point" /\ lastRun.success
    /\ Len(lastRun.results_new) = 2
    /\ Merged(1) /\ Merged(2)
    /\ lastRun.results_new[1].label_id = 1
    /\ lastRun.results_new[2].label_id = 1
    /\ lastRun.results_new[1].mask_tensor[1] > Threshold
    /\ lastRun.results_new[1].mask_tensor[2] <= Threshold
    /\ lastRun.results_new[2].mask_tensor[1] <= Threshold
    /\ lastRun.results_new[2].mask_tensor[2] > Threshold
    /\ volume.data[1] = 0
    /\ volume.data[2] = 1

\* the step's j-th result was dropped at line 357: it is not on the grid of
\* the volume
Dropped(j) ==
    /\ j \in 1..Len(lastRun'.results_new)
    /\ ~Merged(j)'

\* the step merged no result for label l
NoneMergedFor(l) ==
    \A k \in 1..Len(lastRun'.results_new) :
        Merged(k)' => lastRun'.results_new[k].label_id # l

---------------------------------------------------------------------------
(* Properties of the registry a point task writes *)

\* the prompt specs of the descriptor the step runs
StepPrompts == lastTask'.segmentation_prompts

\* C24: a point task whose descriptor holds exactly one prompt spec writes a
\* registry with that prompt's entry and nothing else, whether or not the
\* prompt was recomputed: every entry the registry held for another label is
\* gone.
C24_SinglePromptReplacesRegistry ==
    [][(PointRunStep /\ lastRun'.success /\ Len(StepPrompts) = 1) =>
        /\ registry'.exists
        /\ Len(registry'.rois) = 1
        /\ registry'.rois[1].ROIIndex = StepPrompts[1].target_output_label
        /\ registry'.rois[1].ROIName = DisplayName(StepPrompts[1])
        /\ registry'.rois[1].ROICenter = GetRoiCenterPhysical(StepPrompts[1])
        /\ \A i \in 1..Len(OldRois) :
              OldRois[i].ROIIndex # StepPrompts[1].target_output_label =>
                  \A k \in 1..Len(registry'.rois) :
                      registry'.rois[k].ROIIndex # OldRois[i].ROIIndex]_vars

\* a single prompt for label 1 was skipped as unchanged (no engine call); the
\* volume still holds label 3, whose entry the registry held before, and the
\* registry holds the entry of label 1 only
C24_Witness ==
    /\ lastRun.kind = "point" /\ lastRun.success
    /\ lastRun.calls = 0
    /\ Len(lastTask.segmentation_prompts) = 1
    /\ lastTask.segmentation_prompts[1].target_output_label = 1
    /\ \E v \in 1..Len(volume.data) : volume.data[v] = 3
    /\ registry.exists
    /\ Len(registry.rois) = 1
    /\ registry.rois[1].ROIIndex = 1

\* the 0-based position of label l in the sorted list of the distinct labels
\* of the entries
PositionAmongLabels(rois, l) ==
    Cardinality({rois[i].ROIIndex : i \in 1..Len(rois)} \cap {k \in 0..l : k < l})

\* C25: in every registry written by a point task the entries are sorted by
\* ROIIndex, no two entries carry the same ROIIndex (also when the descriptor
\* names a label more than once), and each entry's colour is the palette
\* element at the position of its label in the sorted list of distinct labels,
\* modulo the palette length.
C25_RoiIndexUniqueKey ==
    [][(PointRunStep /\ lastRun'.success) =>
        LET rois == registry'.rois
        IN  /\ registry'.exists
            /\ \A i, j \in 1..Len(rois) :
                  i < j => rois[i].ROIIndex < rois[j].ROIIndex
            /\ \A i \in 1..Len(rois) :
                  rois[i].ROIColor =
                      RoiColors[(PositionAmongLabels(rois, rois[i].ROIIndex)
                                    % Len(RoiColors)) + 1]]_vars

---------------------------------------------------------------------------
(* validate_task on its own: a parsed descriptor is validated once *)

\* prompt specs that pass or fail one check of lines 126-149 each; the label
\* of the last two is an integer that is not positive
GoodPrompt == Prompt(1, <<"ok">>, <<>>, CenterA, AllPromptKeys)
ValidatePrompts ==
    {GoodPrompt,
     Prompt(2, <<>>, <<"ok">>, CenterA, AllPromptKeys \ {"positive_points"}),
     [GoodPrompt EXCEPT !.is_dict = FALSE],
     [GoodPrompt EXCEPT !.fields = @ \ {"target_output_label"}],
     [GoodPrompt EXCEPT !.label_is_int = FALSE],
     [GoodPrompt EXCEPT !.positive_points_is_list = FALSE],
     Prompt(1, <<>>, <<>>, CenterA, AllPromptKeys),
     Prompt(1, <<"ok", "short">>, <<>>, CenterA, AllPromptKeys),
     Prompt(1, <<"ok">>, <<"text">>, CenterA, AllPromptKeys),
     Prompt(0, <<"ok">>, <<>>, CenterA, AllPromptKeys),
     Prompt(-1, <<"ok">>, <<>>, CenterA, AllPromptKeys)}

\* the values of segmentation_prompts: absent, not a list, or a list of up to
\* MaxPrompts prompt specs
ValidatePromptLists == UNION {[1..n -> ValidatePrompts] : n \in 0..MaxPrompts}

\* the parsed descriptors: keys may be missing, the input file may not exist,
\* segmentation_type may be absent or unknown
ValidateDescriptors ==
    {[fields |-> ({"task_id", "input_file", "output_directory"} \ missing)
                    \cup (IF type = "" THEN {} ELSE {"segmentation_type"})
                    \cup (IF has_prompts THEN {"segmentation_prompts"} ELSE {}),
      input_exists |-> exists, segmentation_type |-> type,
      prompts_is_list |-> is_list, segmentation_prompts |-> prompts] :
        missing \in {{}, {"task_id"}, {"input_file", "output_directory"}},
        exists \in BOOLEAN,
        type \in {"", "full", "point", "auto"},
        has_prompts \in BOOLEAN,
        is_list \in BOOLEAN,
        prompts \in ValidatePromptLists}

InitValidate ==
    /\ files = [p \in Paths |-> GarbageFile]
    /\ created = {}
    /\ tasksDir = {}
    /\ history = [p \in Paths |-> <<>>]
    /\ results = [p \in Paths |-> <<>>]
    /\ registry = NoRegistry
    /\ volume = NoVolume
    /\ active = {}
    /\ pollPc = "scan"
    /\ discovered = <<>>
    /\ queue = <<>>
    /\ wpc = [w \in Workers |-> "idle"]
    /\ wpath = [w \in Workers |-> 0]
    /\ wtask = [w \in Workers |-> GarbageFile.task_data]
    /\ wsuccess = [w \in Workers |-> FALSE]
    /\ submits = [p \in Paths |-> 0]
    /\ engineCalls = [p \in Paths |-> 0]
    /\ engineOk = {}
    /\ engineFailed = {}
    /\ processed = {}
    /\ moveFailed = {}
    /\ faults = 0
    /\ lastTask \in ValidateDescriptors
    /\ lastRun = NoRun
    /\ nTasks = 0
    /\ inflight = [w \in Workers |-> NoCall]
    /\ submitFailed = {}
    /\ starts = 1
    /\ cycle = 0
    /\ leftover = {}
    /\ sleepLeft = 0

\* validate_task is called on the descriptor: the verdict and the message are
\* noted, and the descriptor is as the call leaves it
Validate ==
    /\ lastRun.seq = 0
    /\ LET v == ValidateTask(lastTask)
       IN  /\ lastTask' = v.task_data
           /\ lastRun' = [seq |-> 1, kind |-> "validate",
                          success |-> v.valid, message |-> v.message]
    /\ UNCHANGED <<serviceVars, registry, volume, nTasks, inflight, lifeVars>>

NextValidate == Validate

SpecValidate == InitValidate /\ [][NextValidate]_vars

---------------------------------------------------------------------------
(* process_task_file without its file handling: a descriptor is validated
   and, when it is valid, run *)

\* lines 473-488: run_vista3d_task is called on the descriptor that
\* validate_task accepted
RunValidated ==
    /\ lastRun.kind = "validate"
    /\ lastRun.success
    /\ UNCHANGED nTasks
    /\ IF lastTask.segmentation_type = "point"
       THEN \E outs \in [1..Len(PromptsToProcess(lastTask.segmentation_prompts,
                                                  ExistingRoisMap(registry)))
                             -> EngineOuts({NVox}, {1})] :
                RunOnDir(lastTask, outs, FALSE)
       ELSE \E out \in DirFullOuts : RunOnDir(lastTask, <<out>>, FALSE)

NextPipeline == Validate \/ RunValidated

SpecPipeline == InitValidate /\ [][NextPipeline]_vars

---------------------------------------------------------------------------
(* Properties of validate_task *)

\* the step validates the descriptor lastTask
ValidateStep == lastRun.seq = 0 /\ lastRun'.kind = "validate"

\* the descriptor with an absent segmentation_type read as the default
TypeOf(task_data) ==
    IF "segmentation_type" \in task_data.fields
    THEN task_data.segmentation_type
    ELSE "point"

\* the prompt spec has an integer target_output_label
LabelOk(p) ==
    p.is_dict /\ "target_output_label" \in p.fields /\ p.label_is_int

\* the prompt spec has at least one point across its two lists
HasPoint(p) ==
    /\ PointsIsList(p, "positive_points")
    /\ PointsIsList(p, "negative_points")
    /\ PointsOf(p, "positive_points") \o PointsOf(p, "negative_points") # <<>>

\* every point of the prompt spec is 3 numeric coordinates
PointsOk(p) ==
    \A k \in 1..Len(CurrentPoints(p)) : CurrentPoints(p)[k] = "ok"

\* the first prompt check the prompt spec fails (5: label, 6: points present,
\* 7: point coordinates), 0 when it passes all
FailedCheck(p) ==
    IF ~LabelOk(p) THEN 5
    ELSE IF ~HasPoint(p) THEN 6
    ELSE IF ~PointsOk(p) THEN 7
    ELSE 0

\* the reason reported for prompt spec p at 0-based index i failing check c
ReasonOf(c, p, i) ==
    IF c = 5
    THEN IF ~p.is_dict
         THEN "Prompt spec at index " \o ToString(i) \o " must be a dictionary"
         ELSE "Missing or invalid 'target_output_label' (must be int) in prompt spec at index "
              \o ToString(i)
    ELSE IF c = 6
    THEN IF ~PointsIsList(p, "positive_points") \/ ~PointsIsList(p, "negative_points")
         THEN "positive_points/negative_points must be lists in prompt spec at index "
              \o ToString(i)
         ELSE "At least one positive or negative point must be provided for prompt spec at index "
              \o ToString(i)
    ELSE IF PointListMessage(PointsOf(p, "positive_points"), "positive_points", i) # ""
    THEN PointListMessage(PointsOf(p, "positive_points"), "positive_points", i)
    ELSE PointListMessage(PointsOf(p, "negative_points"), "negative_points", i)

\* the reason of the first failing descriptor check (required fields, input
\* file, segmentation type, prompt list), "" when all four pass
DescriptorReason(task_data) ==
    IF FirstMissingField(task_data) # 0
    THEN "Missing required field: " \o RequiredFields[FirstMissingField(task_data)]
    ELSE IF ~task_data.input_exists THEN "Input file does not exist"
    ELSE IF TypeOf(task_data) \notin {"full", "point"}
    THEN "Invalid segmentation type: " \o TypeOf(task_data)
    ELSE IF TypeOf(task_data) = "full" THEN ""
    ELSE IF "segmentation_prompts" \notin task_data.fields
    THEN "Missing 'segmentation_prompts' for point segmentation"
    ELSE IF ~task_data.prompts_is_list \/ task_data.segmentation_prompts = <<>>
    THEN "'segmentation_prompts' must be a non-empty list"
    ELSE ""

\* the first element of a non-empty set of numbers
Least(S) == CHOOSE k \in S : \A j \in S : k <= j

\* the reason when the three prompt checks are run one after the other, each
\* over the whole prompt list: that of the first check some prompt spec
\* fails, for the first prompt spec failing it
ReasonCheckByCheck(prompts) ==
    LET failing(c) == {k \in 1..Len(prompts) :
                          /\ FailedCheck(prompts[k]) = c
                          /\ \A j \in 1..Len(prompts) :
                                FailedCheck(prompts[j]) \in {0} \cup c..7}
        c == IF failing(5) # {} THEN 5 ELSE IF failing(6) # {} THEN 6 ELSE 7
    IN  IF failing(5) \cup failing(6) \cup failing(7) = {} THEN ""
        ELSE ReasonOf(c, prompts[Least(failing(c))], Least(failing(c)) - 1)

\* the reason when the three prompt checks are run prompt spec by prompt
\* spec: that of the first prompt spec failing a check, for the first check
\* it fails
ReasonPromptByPrompt(prompts) ==
    LET failing == {k \in 1..Len(prompts) : FailedCheck(prompts[k]) # 0}
    IN  IF failing = {} THEN ""
        ELSE ReasonOf(FailedCheck(prompts[Least(failing)]),
                      prompts[Least(failing)], Least(failing) - 1)

\* the call changed nothing in the descriptor but an absent segmentation_type
OnlyTypeFilledIn ==
    \/ lastTask' = lastTask
    \/ /\ "segmentation_type" \notin lastTask.fields
       /\ lastTask' = [lastTask EXCEPT !.fields = @ \cup {"segmentation_type"},
                                       !.segmentation_type = "point"]

\* every check passes on the descriptor
AllChecksPass(task_data) ==
    /\ DescriptorReason(task_data) = ""
    /\ TypeOf(task_data) = "point" =>
          \A k \in 1..Len(task_data.segmentation_prompts) :
              FailedCheck(task_data.segmentation_prompts[k]) = 0

---------------------------------------------------------------------------
(* The poll loop when the directory listing raises *)

\* one sleep interval, the unit of time
Interval == 1

\* an except clause that sleeps the normal interval
ErrorSleepNormal(interval) == interval

\* line 607: time.sleep(interval * 5)
ErrorSleep(interval) == interval * 5

\* lines 569-573 and 604-607: os.listdir raises; the except clause logs the
\* error and starts to sleep
ListingFails ==
    /\ pollPc = "scan"
    /\ faults < MaxFaults
    /\ faults' = faults + 1
    /\ pollPc' = "backoff"
    /\ sleepLeft' = ErrorSleep(Interval)
    /\ UNCHANGED <<active, discovered, queue, submits, submitFailed, starts,
                   cycle, leftover>>
    /\ UNCHANGED pollFrame

\* line 607: one interval of the sleep passes; after the last one the while
\* loop starts its next iteration
Sleep ==
    /\ pollPc = "backoff"
    /\ sleepLeft' = sleepLeft - Interval
    /\ pollPc' = IF sleepLeft - Interval <= 0 THEN "scan" ELSE "backoff"
    /\ UNCHANGED <<active, discovered, queue, submits, faults, submitFailed,
                   starts, cycle, leftover>>
    /\ UNCHANGED pollFrame

\* KeyboardInterrupt arrives during the sleep of line 607: it leaves the
\* except clause, the loop and the with block, which shuts the executor down
InterruptInSleep ==
    /\ pollPc = "backoff"
    /\ pollPc' = "stopped"
    /\ queue' = BacklogAtShutdown(queue)
    /\ UNCHANGED <<active, discovered, submits, faults, lifeVars>>
    /\ UNCHANGED pollFrame

NextBackoff ==
    \/ \E p \in Paths, f \in LifecycleFiles : CreateFile(p, f)
    \/ PollStep
    \/ \E w \in Workers : WorkerStep(w)
    \/ ListingFails
    \/ Sleep
    \/ Interrupt
    \/ InterruptInSleep
    \/ Return

\* the poll loop runs until it is interrupted, a sleep ends, every pool
\* thread is scheduled, and shutdown returns once the pool is drained
SpecBackoff ==
    /\ Init
    /\ [][NextBackoff]_vars
    /\ WF_vars(PollStep)
    /\ WF_vars(Sleep)
    /\ \A w \in Workers : WF_vars(WorkerStep(w))
    /\ WF_vars(Return)

---------------------------------------------------------------------------
(* Properties of the poll loop under errors *)

\* the while loop of line 566 has been left
LoopEnded == pollPc = "stopped" \/ pollPc = "returned"

\* the descriptor at path p was processed and its record says failure
TaskFailed(p) ==
    /\ p \in processed
    /\ results[p] # <<>>
    /\ ~results[p][Len(results[p])].success

\* C27: the failure of a task does not end the poll loop, and neither does an
\* error raised by the directory listing: the except clause sleeps 5 times
\* the normal interval and the next scan follows only when that sleep is
\* over; only the stop signal ends the loop.  Unless the signal arrives the
\* loop is at its listing again and again, also after a task failed.
C27_LoopSurvivesErrors ==
    /\ [][(pollPc = "scan" /\ faults' # faults) =>
            (pollPc' = "backoff" /\ sleepLeft' = 5 * Interval)]_vars
    /\ [][(pollPc = "backoff" /\ pollPc' # "backoff") =>
            ((pollPc' = "scan" /\ sleepLeft = Interval) \/ InterruptInSleep)]_vars
    /\ [][(~LoopEnded /\ LoopEnded') => (Interrupt \/ InterruptInSleep)]_vars
    /\ []<>(pollPc = "scan" \/ LoopEnded)
    /\ \A p \in Paths : TaskFailed(p) ~> (pollPc = "scan" \/ LoopEnded)

\* a listing raised, the sleep of the except clause is over, a later listing
\* found a descriptor, and a descriptor has been processed with failure
C27_Witness ==
    /\ faults = 1
    /\ sleepLeft = 0
    /\ pollPc = "exists"
    /\ \E p \in Paths : TaskFailed(p)

---------------------------------------------------------------------------
(* Properties of a validated descriptor that is run *)

\* C28: every prompt spec of a descriptor that passes validation has a
\* positive integer target_output_label, zero and negative labels being
\* rejected, so no merge assigns a non-positive value to a voxel as a label:
\* no new result carries a label that is not positive and no voxel of the
\* volume holds a negative value.
C28_LabelsPositive ==
    /\ (lastRun.kind = "validate" /\ lastRun.success
            /\ lastTask.segmentation_type = "point") =>
          \A i \in 1..Len(lastTask.segmentation_prompts) :
              lastTask.segmentation_prompts[i].target_output_label > 0
    /\ lastRun.kind = "point" =>
          \A j \in 1..Len(lastRun.results_new) :
              lastRun.results_new[j].label_id > 0
    /\ volume.exists => \A v \in 1..Len(volume.data) : volume.data[v] >= 0

---------------------------------------------------------------------------
(* Properties of the registry against the volume *)

\* the run noted in lastRun merged a result for label l
MergedFor(l) ==
    \E j \in 1..Len(lastRun.results_new) :
        Merged(j) /\ lastRun.results_new[j].label_id = l

\* C29: change detection skips a prompt only when a result for its label and
\* centre was merged into the volume by an earlier task.  The registry a
\* point task writes records no centre for a label whose engine call
\* returned no result or whose result was dropped for a geometry mismatch,
\* and when the descriptor of a task that called the engine for every prompt
\* is submitted again, the engine is called for the labels that got no merged
\* result.
C29_CenterRecordedOnlyWhenMerged ==
    /\ [][(PointRunStep /\ lastRun'.success) =>
            \A i \in 1..Len(StepPrompts) :
                LET l == StepPrompts[i].target_output_label
                    c == GetRoiCenterPhysical(StepPrompts[i])
                IN  (/\ c # None
                     /\ NeedsProcessing(StepPrompts[i], ExistingRoisMap(registry))
                     /\ \A j \in 1..Len(lastRun'.results_new) :
                           Merged(j)' => lastRun'.results_new[j].label_id # l) =>
                        \A k \in 1..Len(registry'.rois) :
                            registry'.rois[k].ROIIndex = l =>
                                registry'.rois[k].ROICenter # c]_vars
    /\ [][(/\ ResubmissionStep
           /\ lastRun.success
           /\ lastRun.calls = Len(lastTask.segmentation_prompts)
           /\ \E i \in 1..Len(lastTask.segmentation_prompts) :
                 ~MergedFor(lastTask.segmentation_prompts[i].target_output_label)) =>
            lastRun'.calls >= 1]_vars

\* every nonzero label of the persisted volume has an entry in the registry
VolumeLabelsRegistered ==
    volume.exists =>
        \A v \in 1..Len(volume.data) :
            volume.data[v] # 0 =>
                /\ registry.exists
                /\ \E k \in 1..Len(registry.rois) :
                      registry.rois[k].ROIIndex = volume.data[v]

\* C30 as stated: after any sequence of completed tasks, point or full, on
\* one output directory, every nonzero label present in the persisted volume
\* has an entry with that ROIIndex in the directory's registry.
C30_EveryVolumeLabelRegistered == VolumeLabelsRegistered

\* C30, amended: a point task whose descriptor holds two or more prompt specs
\* keeps the property.  When every nonzero label of the volume had a registry
\* entry before the task, every nonzero label of the volume has one after it;
\* and every label the task merged has an entry in the registry it wrote.
C30_MultiPromptTaskKeepsLabelsRegistered ==
    [][(PointRunStep /\ lastRun'.success /\ Len(StepPrompts) >= 2) =>
        /\ VolumeLabelsRegistered => VolumeLabelsRegistered'
        /\ \A j \in 1..Len(lastRun'.results_new) :
              Merged(j)' =>
                  \E k \in 1..Len(registry'.rois) :
                      registry'.rois[k].ROIIndex = lastRun'.results_new[j].label_id]_vars

\* a task with two prompt specs merged label 1 next to label 3, which an
\* earlier task had left in the volume; the registry holds an entry for both
C30_Witness ==
    /\ lastRun.kind = "point" /\ lastRun.success
    /\ Len(lastTask.segmentation_prompts) = 2
    /\ MergedFor(1)
    /\ volume.data[1] = 3
    /\ volume.data[2] = 1
    /\ \E k \in 1..Len(registry.rois) : registry.rois[k].ROIIndex = 3
    /\ \E k \in 1..Len(registry.rois) : registry.rois[k].ROIIndex = 1

====
